---- MODULE Spec2Model ----
(***************************************************************************)
(* FlightTracker: the adaptive query scheduler of flight_tracker/gui.py.   *)
(*                                                                         *)
(* The model covers the discounted statistics archive (_archive_decay,     *)
(* _archive_add_observation), the batch proposal                           *)
(* (_propose_batch_ts_additive), the replay of the record store            *)
(* (_archive_bootstrap_from_records), the archive file (_archive_load,     *)
(* _archive_save) and the random-mode sweep of _monitor_loop.              *)
(*                                                                         *)
(* Numbers.  The code computes with Python floats.  The model computes the *)
(* same expressions with exact rationals <<num, den>> in lowest terms, so  *)
(* that 0.98 * 100 + 0.02 * 80 is exactly 99.6.  A rational whose          *)
(* numerator or denominator would exceed MaxMagnitude is HUGE; an          *)
(* operation whose result holds a HUGE number is not explored further.     *)
(*                                                                         *)
(* Dates.  A calendar day "YYYY-MM-DD" is modelled by its day number;      *)
(* strptime/strftime/timedelta arithmetic on well-formed dates is integer  *)
(* arithmetic on day numbers, and the string order of ISO dates is the     *)
(* order of the day numbers.                                               *)
(***************************************************************************)
EXTENDS Integers, Sequences, FiniteSets, TLC

VARIABLES
    arch,    \* the in-memory archive: [gamma, stats], stats maps arm -> record
    call,    \* the most recent call: its name and its arguments
    pre,     \* the archive as it was when the most recent call started
    batch,   \* what the most recent propose_batch composed and returned
    ops,     \* number of archive-mutating calls made so far
    log,     \* the lines of the record store flight_records.jsonl
    disk,    \* the archive file ts_archive.json and its temporary file
    pc,      \* where the monitor thread is, with its local variables
    stop_event  \* the stop event the GUI thread sets to cancel the sweep

vars == <<arch, call, pre, batch, ops, log, disk, pc, stop_event>>

(***************************************************************************)
(* Bounds of the exploration.                                              *)
(***************************************************************************)
\* Calendar days on which calls happen are 0..MaxDay.
MaxDay == 2
\* At most MaxOps archive-mutating calls are explored from an initial archive.
MaxOps == 2
\* Batch sizes q are 0..MaxQ.
MaxQ == 4
\* Largest numerator or denominator of a rational the exploration keeps.
MaxMagnitude == 1073741000

(***************************************************************************)
(* Exact rational arithmetic.                                              *)
(***************************************************************************)
Abs(x) == IF x < 0 THEN -x ELSE x

RECURSIVE GCD(_, _)
GCD(a, b) == IF b = 0 THEN a ELSE GCD(b, a % b)

\* The number that is too large to represent within MaxMagnitude.
HUGE == <<0, 0>>

IsHuge(p) == p[2] = 0

\* a * b stays within MaxMagnitude.
Fits(a, b) == a = 0 \/ b = 0 \/ Abs(a) <= MaxMagnitude \div Abs(b)

\* n / d (d > 0) in lowest terms.
Norm(n, d) ==
    LET g == GCD(Abs(n), d)
        nn == n \div g
        dd == d \div g
    IN  IF Abs(nn) > MaxMagnitude \/ dd > MaxMagnitude THEN HUGE ELSE <<nn, dd>>

Rat(n, d) == Norm(n, d)

Zero == <<0, 1>>
One == <<1, 1>>

RatMul(p, q) ==
    IF IsHuge(p) \/ IsHuge(q) THEN HUGE
    ELSE LET g1 == GCD(Abs(p[1]), q[2])
             g2 == GCD(Abs(q[1]), p[2])
             a == p[1] \div g1
             c == q[1] \div g2
             b == p[2] \div g2
             d == q[2] \div g1
         IN  IF Fits(a, c) /\ Fits(b, d) THEN Norm(a * c, b * d) ELSE HUGE

RatAdd(p, q) ==
    IF IsHuge(p) \/ IsHuge(q) THEN HUGE
    ELSE LET g == GCD(p[2], q[2])
             m1 == q[2] \div g
             m2 == p[2] \div g
         IN  IF Fits(p[1], m1) /\ Fits(q[1], m2) /\ Fits(p[2], m1)
             THEN Norm(p[1] * m1 + q[1] * m2, p[2] * m1)
             ELSE HUGE

RatNeg(p) == IF IsHuge(p) THEN HUGE ELSE <<-p[1], p[2]>>

RatSub(p, q) == RatAdd(p, RatNeg(q))

\* a/b < c/d for b, d > 0, by comparing the integer parts and then the
\* reciprocals of the fractional parts.
RECURSIVE FracLess(_, _, _, _)
FracLess(a, b, c, d) ==
    LET q1 == a \div b
        q2 == c \div d
        r1 == a % b
        r2 == c % d
    IN  IF q1 # q2 THEN q1 < q2
        ELSE IF r2 = 0 THEN FALSE
        ELSE IF r1 = 0 THEN TRUE
        ELSE FracLess(d, r2, b, r1)

\* p < q for representable p, q.
RatLess(p, q) == ~IsHuge(p) /\ ~IsHuge(q) /\ FracLess(p[1], p[2], q[1], q[2])

\* Python's max(a, b): b if b > a else a.
RatMax(a, b) ==
    IF IsHuge(a) \/ IsHuge(b) THEN HUGE ELSE IF RatLess(a, b) THEN b ELSE a

\* p ** e for an integer e >= 0.
RECURSIVE RatPow(_, _)
RatPow(p, e) == IF e = 0 THEN One ELSE RatMul(p, RatPow(p, e - 1))

(***************************************************************************)
(* The archive.                                                            *)
(***************************************************************************)
\* Airport codes, in their string order.
CodeOrder == <<"AMS", "LON", "PAR">>

\* _archive_key: the arm (dep, dest, dep_date, ret_date).  The four fields
\* hold no '|', so the key and the tuple of its fields determine each other.
ArchiveKey(dep, dest, dep_date, ret_date) == <<dep, dest, dep_date, ret_date>>

\* The numerical floor of the variance, 1e-6.
VarFloorDen == 1000000
VarFloor == Rat(1, VarFloorDen)

\* The default decay factor, 0.98.
DefaultGamma == Rat(98, 100)

EmptyStats == [k \in {} |-> 0]

\* _archive_load when no file exists.
EmptyArchive(gamma) == [gamma |-> gamma, stats |-> EmptyStats]

\* Every number of the archive is representable.
Representable(a) ==
    /\ ~IsHuge(a.gamma)
    /\ \A k \in DOMAIN a.stats :
          ~IsHuge(a.stats[k].mu) /\ ~IsHuge(a.stats[k].var) /\ ~IsHuge(a.stats[k].n)

\* A day string that datetime.strptime(day, "%Y-%m-%d") rejects, such as the
\* first ten characters "2026-0-5-1" of the four-part timestamp "2026-0-5-10".
BadDay == -2

\* strptime accepts the day string.
DateParses(d) == d # BadDay

\* The last_date of an arm record that has none (or an empty one).
Undated == -3

\* The mutant of _archive_decay that forgets to stamp last_date.
ArchiveDecay_NoStamp(a, today) ==
    [a EXCEPT !.stats =
        [k \in DOMAIN a.stats |->
            LET s == a.stats[k]
                delta == today - s.last_date
                factor == RatPow(a.gamma, delta)
            IN  IF delta <= 0 THEN s
                ELSE [mu |-> RatMul(s.mu, factor),
                      var |-> RatMul(s.var, factor),
                      n |-> RatMul(s.n, factor),
                      last_date |-> s.last_date]]]

\* The mutant of _archive_decay that uses gamma * delta for gamma ** delta.
ArchiveDecay_Linear(a, today) ==
    [a EXCEPT !.stats =
        [k \in DOMAIN a.stats |->
            LET s == a.stats[k]
                delta == today - s.last_date
                factor == RatMul(a.gamma, Rat(delta, 1))
            IN  IF delta <= 0 THEN s
                ELSE [mu |-> RatMul(s.mu, factor),
                      var |-> RatMul(s.var, factor),
                      n |-> RatMul(s.n, factor),
                      last_date |-> today]]]

\* _archive_decay(arch, today): nothing happens when today does not parse as
\* a date; otherwise an arm without last_date gets today as its last_date,
\* every arm whose last_date is delta > 0 days before today
\* has mu, var and n multiplied by gamma ** delta and its last_date set to
\* today, an arm whose last_date does not parse is popped from stats (the
\* except branch), and the other arms are left alone.
ArchiveDecay(a, today) ==
    IF ~DateParses(today) THEN a
    ELSE [a EXCEPT !.stats =
        [k \in {j \in DOMAIN a.stats : DateParses(a.stats[j].last_date)} |->
            LET s == a.stats[k]
                delta == today - s.last_date
                factor == RatPow(a.gamma, delta)
            IN  IF s.last_date = Undated THEN [s EXCEPT !.last_date = today]
                ELSE IF delta <= 0 THEN s
                ELSE [mu |-> RatMul(s.mu, factor),
                      var |-> RatMul(s.var, factor),
                      n |-> RatMul(s.n, factor),
                      last_date |-> today]]]

\* The mutant of the EWMA step that stores var_new without the floor.
EwmaUpdate_NoFloor(gamma, s, y, today) ==
    LET alpha == RatSub(One, gamma)
        mu_new == RatAdd(RatMul(gamma, s.mu), RatMul(alpha, y))
        diff == RatSub(y, mu_new)
        var_new == RatAdd(RatMul(gamma, s.var), RatMul(alpha, RatMul(diff, diff)))
        n_new == RatAdd(RatMul(gamma, s.n), One)
    IN  [mu |-> mu_new, var |-> var_new, n |-> n_new, last_date |-> today]

\* The mutant of the EWMA step that adds no fresh weight.
EwmaUpdate_NoFreshWeight(gamma, s, y, today) ==
    LET alpha == RatSub(One, gamma)
        mu_new == RatAdd(RatMul(gamma, s.mu), RatMul(alpha, y))
        diff == RatSub(y, mu_new)
        var_new == RatAdd(RatMul(gamma, s.var), RatMul(alpha, RatMul(diff, diff)))
        n_new == RatMul(gamma, s.n)
    IN  [mu |-> mu_new, var |-> RatMax(VarFloor, var_new), n |-> n_new,
         last_date |-> today]

\* The mutant of the EWMA step that adds the price with weight 1 instead of
\* alpha.
EwmaUpdate_UnweightedPrice(gamma, s, y, today) ==
    LET alpha == RatSub(One, gamma)
        mu_new == RatAdd(RatMul(gamma, s.mu), y)
        diff == RatSub(y, mu_new)
        var_new == RatAdd(RatMul(gamma, s.var), RatMul(alpha, RatMul(diff, diff)))
        n_new == RatAdd(RatMul(gamma, s.n), One)
    IN  [mu |-> mu_new, var |-> RatMax(VarFloor, var_new), n |-> n_new,
         last_date |-> today]

\* The mutant of the EWMA step that adds the fresh weight to an undiscounted
\* count.
EwmaUpdate_Undiscounted(gamma, s, y, today) ==
    LET alpha == RatSub(One, gamma)
        mu_new == RatAdd(RatMul(gamma, s.mu), RatMul(alpha, y))
        diff == RatSub(y, mu_new)
        var_new == RatAdd(RatMul(gamma, s.var), RatMul(alpha, RatMul(diff, diff)))
        n_new == RatAdd(s.n, One)
    IN  [mu |-> mu_new, var |-> RatMax(VarFloor, var_new), n |-> n_new,
         last_date |-> today]

\* The EWMA step of _archive_add_observation on the record s.
EwmaUpdate(gamma, s, y, today) ==
    LET alpha == RatSub(One, gamma)
        mu_new == RatAdd(RatMul(gamma, s.mu), RatMul(alpha, y))
        diff == RatSub(y, mu_new)
        var_new == RatAdd(RatMul(gamma, s.var), RatMul(alpha, RatMul(diff, diff)))
        n_new == RatAdd(RatMul(gamma, s.n), One)
    IN  [mu |-> mu_new, var |-> RatMax(VarFloor, var_new), n |-> n_new,
         last_date |-> today]

\* The mutant of _archive_add_observation that reads the arm's record as it was
\* before the decay pass (a copy instead of the record the decay updates).
ArchiveAddObservation_StaleRecord(a, key, y, today) ==
    LET decayed == ArchiveDecay(a, today)
        s == IF key \in DOMAIN a.stats
             THEN a.stats[key]
             ELSE [mu |-> y, var |-> One, n |-> One, last_date |-> today]
        s_new == EwmaUpdate(a.gamma, s, y, today)
    IN  [decayed EXCEPT !.stats =
            [k \in DOMAIN decayed.stats \cup {key} |->
                IF k = key THEN s_new ELSE decayed.stats[k]]]

\* _archive_add_observation(arch, key, y, today).  s is the arm's record in
\* stats (updated in place by the decay pass that follows, or left as it was
\* when the decay pass pops it) or, for a new arm,
\* the record {mu: y, var: 1.0, n: 1.0}; the EWMA step is applied to s in both
\* cases and the result is stored under key.
ArchiveAddObservation(a, key, y, today) ==
    LET decayed == ArchiveDecay(a, today)
        s == IF key \in DOMAIN decayed.stats THEN decayed.stats[key]
             ELSE IF key \in DOMAIN a.stats THEN a.stats[key]
             ELSE [mu |-> y, var |-> One, n |-> One, last_date |-> today]
        s_new == EwmaUpdate(a.gamma, s, y, today)
    IN  [decayed EXCEPT !.stats =
            [k \in DOMAIN decayed.stats \cup {key} |->
                IF k = key THEN s_new ELSE decayed.stats[k]]]

(***************************************************************************)
(* propose_batch (_propose_batch_ts_additive).                             *)
(***************************************************************************)
Min(a, b) == IF a < b THEN a ELSE b
Max(a, b) == IF a > b THEN a ELSE b

Range(s) == {s[i] : i \in 1..Len(s)}

Prefix(s, n) == SubSeq(s, 1, Min(n, Len(s)))

CodeRank(c) == CHOOSE i \in 1..Len(CodeOrder) : CodeOrder[i] = c

\* Python's tuple order on (dep, dest, dep_date, ret_date).
ArmLess(a, b) ==
    \/ CodeRank(a[1]) < CodeRank(b[1])
    \/ a[1] = b[1] /\ CodeRank(a[2]) < CodeRank(b[2])
    \/ a[1] = b[1] /\ a[2] = b[2] /\ a[3] < b[3]
    \/ a[1] = b[1] /\ a[2] = b[2] /\ a[3] = b[3] /\ a[4] < b[4]

\* _ret_date(dd, dur): the day dur days after dd.
ReturnDate(dd, dur) == dd + dur

\* int(q * 0.6), int(q * 0.3) and max(1, int(q * random_floor_frac)), with
\* random_floor_frac the rational frac.
QSeen(q) == (q * 6) \div 10
QSur(q) == (q * 3) \div 10

\* The mutant of QRand without the minimum of one slot.
QRand_NoMinimum(q, frac) == (q * frac[1]) \div frac[2]

QRand(q, frac) == Max(1, (q * frac[1]) \div frac[2])

\* The attempts of the random floor are at most 20 per slot.
RandTriesFactor == 20

\* 1) Thompson on seen arms.  sample maps every archived arm to the rank of its
\* posterior draw (np.random.normal has full support, so every ranking can
\* come out); seen_candidates sorted by sample, first q_seen taken.
ThompsonSamples(stats) ==
    {f \in [DOMAIN stats -> 1..Cardinality(DOMAIN stats)] :
        \A j, k \in DOMAIN stats : f[j] = f[k] => j = k}

\* The mutant of the sort that puts the highest sample first.
SeenSorted_Descending(stats, sample) ==
    [i \in 1..Cardinality(DOMAIN stats) |->
        CHOOSE k \in DOMAIN stats : sample[k] = Cardinality(DOMAIN stats) + 1 - i]

SeenSorted(stats, sample) ==
    [i \in 1..Cardinality(DOMAIN stats) |->
        CHOOSE k \in DOMAIN stats : sample[k] = i]

ThompsonPick(stats, sample, q) == Prefix(SeenSorted(stats, sample), QSeen(q))

\* 2) _fit_additive_surrogate: three maps over the distinct origins,
\* destinations and outbound dates of the archived arms, all empty for an
\* empty archive.  The coefficients solve a ridge system over the reals; here
\* each coefficient is any of CoefValues.
CoefValues == {-1, 1}

FitAdditiveSurrogate(a) ==
    LET keys == DOMAIN a.stats
    IN  [alpha : [{k[1] : k \in keys} -> CoefValues],
         beta : [{k[2] : k \in keys} -> CoefValues],
         gamma : [{k[3] : k \in keys} -> CoefValues]]

\* dct.get(x, 0.0)
Get(dct, x) == IF x \in DOMAIN dct THEN dct[x] ELSE 0

\* list.sort(key=...) is stable: x goes behind every element whose key is not
\* larger than its own.
RECURSIVE InsertStable(_, _, _)
InsertStable(sorted, x, dct) ==
    IF sorted = <<>> THEN <<x>>
    ELSE IF Get(dct, x) < Get(dct, Head(sorted))
         THEN <<x>> \o sorted
         ELSE <<Head(sorted)>> \o InsertStable(Tail(sorted), x, dct)

RECURSIVE SortByScore(_, _)
SortByScore(universe, dct) ==
    IF universe = <<>> THEN <<>>
    ELSE InsertStable(SortByScore(Prefix(universe, Len(universe) - 1), dct),
                      universe[Len(universe)], dct)

\* The mutant of _topk that never ranks the pool.
TopK_Unranked(dct, k, universe) == Prefix(universe, k)

\* _topk(dct, k, universe)
TopK(dct, k, universe) ==
    IF DOMAIN dct = {} THEN Prefix(universe, k)
    ELSE Prefix(SortByScore(universe, dct), k)

\* sorted(set(durations))
RECURSIVE SortedSet(_)
SortedSet(S) ==
    IF S = {} THEN <<>>
    ELSE LET m == CHOOSE x \in S : \A y \in S : x <= y
         IN  <<m>> \o SortedSet(S \ {m})

\* dur_list: [0] without durations, else the shortest and the median length.
DurList(durations) ==
    IF durations = <<>> THEN <<0>>
    ELSE LET durs_sorted == SortedSet(Range(durations))
             mid == durs_sorted[Len(durs_sorted) \div 2 + 1]
         IN  IF Len(durs_sorted) > 1 THEN <<durs_sorted[1], mid>>
             ELSE <<durs_sorted[1]>>

\* The mutant of the test that finds no key in the archive.
InStats_Never(stats, key) == FALSE

\* if key in stats
InStats(stats, key) == key \in DOMAIN stats

\* The heap after the beam loops: (score, arm) for every combination of the
\* top-k origins, destinations, dates and dur_list whose key is not in stats.
\* The pools hold no element twice, so no combination is pushed twice.
BeamHeap(a, fit, deps_pool, dests_pool, dates_pool, durations, beam_k) ==
    LET top_dep == TopK(fit.alpha, beam_k, deps_pool)
        top_dest == TopK(fit.beta, beam_k, dests_pool)
        top_dates == TopK(fit.gamma, beam_k, dates_pool)
        dur_list == DurList(durations)
    IN  {e \in {<<Get(fit.alpha, d) + Get(fit.beta, b) + Get(fit.gamma, dd),
                  ArchiveKey(d, b, dd, ReturnDate(dd, dur))>> :
                    d \in Range(top_dep), b \in Range(top_dest),
                    dd \in Range(top_dates), dur \in Range(dur_list)} :
            ~InStats(a.stats, e[2])}

\* Python's tuple order on heap entries (score, arm).
EntryLess(e, f) == e[1] < f[1] \/ (e[1] = f[1] /\ ArmLess(e[2], f[2]))

\* heapq.heappop until the heap is empty or n arms are taken.
RECURSIVE HeapPops(_, _)
HeapPops(heap, n) ==
    IF heap = {} \/ n <= 0 THEN <<>>
    ELSE LET e == CHOOSE x \in heap : \A y \in heap : x = y \/ EntryLess(x, y)
         IN  <<e[2]>> \o HeapPops(heap \ {e}, n - 1)

SurrogatePick(a, fit, deps_pool, dests_pool, dates_pool, durations, beam_k, q) ==
    HeapPops(BeamHeap(a, fit, deps_pool, dests_pool, dates_pool, durations, beam_k),
             QSur(q))

\* 3) Random floor.  The arms rng.choice can compose.
DrawUniverse(deps_pool, dests_pool, dates_pool, durations) ==
    {ArchiveKey(d, b, dd, ReturnDate(dd, dur)) :
        d \in Range(deps_pool), b \in Range(dests_pool),
        dd \in Range(dates_pool), dur \in Range(durations)}

\* The lists the random loop can append to picked.  rs holds the arms added
\* so far.  Every try draws one arm of the universe; a draw that is in picked
\* is wasted.  The loop ends when q_rand arms are added, at the break (a pool
\* or the durations empty, so nothing can be drawn), or when its
\* q_rand * 20 tries are used up: with fewer than that many arms added, the
\* other tries drew arms already in picked.
RECURSIVE RandomFloor(_, _, _, _)
RandomFloor(picked, rs, q_rand, universe) ==
    LET taken == Range(picked) \cup Range(rs)
        fresh == universe \ taken
        tries_left == q_rand * RandTriesFactor - Len(rs)
        may_end == \/ Len(rs) >= q_rand
                   \/ universe = {}
                   \/ tries_left <= 0
                   \/ universe \cap taken # {}
    IN  (IF may_end THEN {rs} ELSE {})
        \cup (IF Len(rs) < q_rand /\ tries_left > 0
              THEN UNION {RandomFloor(picked, Append(rs, c), q_rand, universe) :
                            c \in fresh}
              ELSE {})

\* The mutant of the final loop that keeps the last q arms instead of the first.
DedupCap_KeepLast(picked, out, q) ==
    IF Len(picked) <= Max(q, 1) THEN picked
    ELSE SubSeq(picked, Len(picked) - Max(q, 1) + 1, Len(picked))

\* Deduplicate and cap to q: an arm already in out is skipped, any other arm
\* is appended, and the loop breaks as soon as len(out) >= q after an append.
RECURSIVE DedupCap(_, _, _)
DedupCap(picked, out, q) ==
    IF picked = <<>> THEN out
    ELSE IF Head(picked) \in Range(out) THEN DedupCap(Tail(picked), out, q)
         ELSE LET out2 == Append(out, Head(picked))
              IN  IF Len(out2) >= q THEN out2
                  ELSE DedupCap(Tail(picked), out2, q)

(***************************************************************************)
(* Inputs of the exploration.                                              *)
(***************************************************************************)
Days == 0..MaxDay

\* Arms that get observations.
ObservedArms ==
    {ArchiveKey("LON", "PAR", 1, 2), ArchiveKey("AMS", "PAR", 2, 4)}

\* Observed prices.
Prices == {Rat(80, 1), Rat(100, 1)}

\* The archive of the spec's ingestion scenario: one arm with mean 100,
\* variance 1, weight 10, decay factor 0.98.
ScenarioIngest ==
    [gamma |-> Rat(98, 100),
     stats |-> [k \in {ArchiveKey("LON", "PAR", 1, 2)} |->
                  [mu |-> Rat(100, 1), var |-> One, n |-> Rat(10, 1), last_date |-> 0]]]

\* The archive of the spec's decay scenario: one arm with mean 200, weight 5,
\* decay factor 0.9, last updated on day 0.
ScenarioDecay ==
    [gamma |-> Rat(9, 10),
     stats |-> [k \in {ArchiveKey("LON", "PAR", 1, 2)} |->
                  [mu |-> Rat(200, 1), var |-> One, n |-> Rat(5, 1), last_date |-> 0]]]

\* Archives _archive_load can return when the sweep starts: no file (default
\* gamma), or a file written earlier with its own gamma.
LoadedArchives ==
    {EmptyArchive(DefaultGamma), EmptyArchive(Rat(1, 2)), EmptyArchive(Rat(1, 2000)),
     ScenarioIngest, ScenarioDecay}

NoCall == [op |-> "load", changed |-> FALSE,
           prev_op |-> "none", prev_day |-> -1, prev_changed |-> FALSE]
NoBatch ==
    [ts |-> <<>>, sur |-> <<>>, rnd |-> <<>>, out |-> <<>>, sample |-> <<>>,
     fit |-> [alpha |-> <<>>, beta |-> <<>>, gamma |-> <<>>],
     top |-> [dep |-> <<>>, dest |-> <<>>, dates |-> <<>>]]

\* No archive file and no temporary file.
NoFile == [kind |-> "missing"]
NoDisk == [file |-> NoFile, tmp |-> NoFile]

\* The monitor thread is not running: the archive functions are called one
\* by one.
Idle == [at |-> "idle"]

Init ==
    /\ stop_event = FALSE
    /\ arch \in LoadedArchives
    /\ call = NoCall
    /\ pre = arch
    /\ batch = NoBatch
    /\ ops = 0
    /\ log = <<>>
    /\ disk = NoDisk
    /\ pc = Idle

PrevDay == IF call.op \in {"decay", "add"} THEN call.day ELSE -1

\* A call of _archive_decay(arch, today).
Decay ==
    \E today \in Days :
        LET new == ArchiveDecay(arch, today)
        IN  /\ pc = Idle
            /\ ops < MaxOps
            /\ Representable(new)
            /\ arch' = new
            /\ pre' = arch
            /\ call' = [op |-> "decay", day |-> today, changed |-> new # arch,
                        prev_op |-> call.op, prev_day |-> PrevDay,
                        prev_changed |-> call.changed]
            /\ batch' = NoBatch
            /\ ops' = ops + 1
            /\ UNCHANGED <<stop_event, log, disk, pc>>

\* A call of _archive_add_observation(arch, key, y, today).
AddObservation ==
    \E key \in ObservedArms, y \in Prices, today \in Days :
        LET new == ArchiveAddObservation(arch, key, y, today)
            \* this call continues a run of observations of one arm at one
            \* price on non-decreasing days
            same_run == call.op = "add" /\ call.key = key /\ call.y = y
                        /\ today >= call.day
            \* days have elapsed since the arm's last update
            gap == key \in DOMAIN arch.stats /\ today > arch.stats[key].last_date
        IN  /\ pc = Idle
            /\ ops < MaxOps
            /\ Representable(new)
            /\ arch' = new
            /\ pre' = arch
            /\ call' = [op |-> "add", key |-> key, y |-> y, day |-> today,
                        changed |-> new # arch,
                        run_len |-> IF same_run THEN call.run_len + 1 ELSE 1,
                        run_mu0 |-> IF same_run THEN call.run_mu0
                                    ELSE IF key \in DOMAIN arch.stats
                                         THEN arch.stats[key].mu ELSE y,
                        run_gap |-> (same_run /\ call.run_gap) \/ gap,
                        prev_op |-> call.op, prev_day |-> PrevDay,
                        prev_changed |-> call.changed]
            /\ batch' = NoBatch
            /\ ops' = ops + 1
            /\ UNCHANGED <<stop_event, log, disk, pc>>

Next == Decay \/ AddObservation

Spec == Init /\ [][Next]_vars

(***************************************************************************)
(* propose_batch as a function of the archive and its arguments.           *)
(***************************************************************************)
\* The archive after one observation of price 100 on day 0 for each arm of S.
RECURSIVE Seeded(_)
Seeded(S) ==
    IF S = {} THEN EmptyArchive(DefaultGamma)
    ELSE LET k == CHOOSE x \in S : TRUE
         IN  ArchiveAddObservation(Seeded(S \ {k}), k, Rat(100, 1), 0)

SeededArchives == {Seeded(S) : S \in SUBSET ObservedArms}

\* The pools of a sweep (lists without repetition) and the other arguments.
DepsPools == {<<>>, <<"LON", "AMS">>}
DestsPools == {<<>>, <<"PAR">>}
DatesPools == {<<>>, <<1, 2>>, <<2>>}
DurationLists == {<<>>, <<2, 1>>}
Fracs == {Rat(1, 10), Rat(1, 2)}
BeamKs == {1, 20}

InitBatch ==
    /\ stop_event = FALSE
    /\ arch \in SeededArchives
    /\ call = NoCall
    /\ pre = arch
    /\ batch = NoBatch
    /\ ops = 0
    /\ log = <<>>
    /\ disk = NoDisk
    /\ pc = Idle

\* A call of _propose_batch_ts_additive.  The call leaves the archive as it
\* is, so a second call on the same archive composes what a first call can
\* compose: one proposal per archive state is explored.
ProposeCall(deps_pool, dests_pool, dates_pool, durations, q, frac, beam_k) ==
    \E sample \in ThompsonSamples(arch.stats), fit \in FitAdditiveSurrogate(arch) :
      LET ts == ThompsonPick(arch.stats, sample, q)
          sur == SurrogatePick(arch, fit, deps_pool, dests_pool, dates_pool,
                               durations, beam_k, q)
          universe == DrawUniverse(deps_pool, dests_pool, dates_pool, durations)
      IN  \E rnd \in RandomFloor(ts \o sur, <<>>, QRand(q, frac), universe) :
            /\ batch' = [ts |-> ts, sur |-> sur, rnd |-> rnd,
                         out |-> DedupCap(ts \o sur \o rnd, <<>>, q),
                         sample |-> sample, fit |-> fit,
                         top |-> [dep |-> TopK(fit.alpha, beam_k, deps_pool),
                                  dest |-> TopK(fit.beta, beam_k, dests_pool),
                                  dates |-> TopK(fit.gamma, beam_k, dates_pool)]]
            /\ call' = [op |-> "propose", deps_pool |-> deps_pool,
                        dests_pool |-> dests_pool, dates_pool |-> dates_pool,
                        durations |-> durations, q |-> q, frac |-> frac,
                        beam_k |-> beam_k, changed |-> FALSE,
                        prev_op |-> call.op, prev_day |-> -1,
                        prev_changed |-> call.changed]
            /\ pre' = arch
            /\ UNCHANGED <<stop_event, arch, ops, log, disk, pc>>

\* A call of _propose_batch_ts_additive on the archive.
ProposeBatch ==
    /\ call.op # "propose"
    /\ \E deps_pool \in DepsPools, dests_pool \in DestsPools, dates_pool \in DatesPools,
          durations \in DurationLists, q \in 0..MaxQ, frac \in Fracs, beam_k \in BeamKs :
         ProposeCall(deps_pool, dests_pool, dates_pool, durations, q, frac, beam_k)

NextBatch == ProposeBatch

SpecBatch == InitBatch /\ [][NextBatch]_vars

(***************************************************************************)
(* The record store and its replay (_archive_bootstrap_from_records).      *)
(*                                                                         *)
(* A timestamp "YYYY-MM-DD-HH" is the pair <<day, hour>>; the string order *)
(* of well-formed timestamps is the lexicographic order of the pairs.      *)
(***************************************************************************)
\* At most MaxLog lines are in the record store.
MaxLog == 3

\* No timestamp: the archive has no 'last_bootstrap_ts' (read as "").
NoTs == <<>>

\* A date field that is missing.
NoDate == -1

\* ts_a < ts_b for timestamps.
TsLess(a, b) == a[1] < b[1] \/ (a[1] = b[1] /\ a[2] < b[2])

\* An archive with its bootstrap watermark.
WithWatermark(a, ts) ==
    [gamma |-> a.gamma, stats |-> a.stats, last_bootstrap_ts |-> ts]

\* A line json.loads rejects, and a line that is JSON but not an object.
GarbageLine == [kind |-> "garbage"]
NonObjectLine == [kind |-> "nonobject"]

\* A line holding an object.  stamp is "datetime" (YYYY-MM-DD-HH), "date"
\* (YYYY-MM-DD) or "none"; dep and dest are "" and dd and rd are NoDate when
\* missing; price_kind is "num", "text" or "none".
RecordLine(stamp, day, hour, dep, dest, dd, rd, price_kind, price) ==
    [kind |-> "record", stamp |-> stamp, day |-> day, hour |-> hour,
     dep |-> dep, dest |-> dest, dd |-> dd, rd |-> rd,
     price_kind |-> price_kind, price |-> price]

\* ts_norm: the timestamp as it is, or the date with hour 00.
TsNorm(l) == IF l.stamp = "datetime" THEN <<l.day, l.hour>> ELSE <<l.day, 0>>

\* The line passes the checks of the collecting loop with watermark last_ts:
\* it has a timestamp, newer than last_ts if there is one, the four fields of
\* the arm, and a price that parses to a positive number.
Eligible(l, last_ts) ==
    /\ l.kind = "record"
    /\ l.stamp # "none"
    /\ last_ts = NoTs \/ TsLess(last_ts, TsNorm(l))
    /\ l.dep # "" /\ l.dest # "" /\ l.dd # NoDate /\ l.rd # NoDate
    /\ l.price_kind = "num" /\ RatLess(Zero, l.price)

\* The row collected from an eligible line; day is ts_norm[:10].
Row(l) ==
    [ts |-> TsNorm(l), key |-> ArchiveKey(l.dep, l.dest, l.dd, l.rd),
     price |-> l.price, day |-> TsNorm(l)[1]]

\* rows, in the order of the file.
RECURSIVE CollectRows(_, _)
CollectRows(lg, last_ts) ==
    IF lg = <<>> THEN <<>>
    ELSE (IF Eligible(Head(lg), last_ts) THEN <<Row(Head(lg))>> ELSE <<>>)
         \o CollectRows(Tail(lg), last_ts)

\* The mutant of the sort that leaves the rows in the order of the file.
SortRows_FileOrder(rows) == rows

\* rows.sort(key=lambda r: r[0]): stable, ascending timestamps.
RECURSIVE InsertRow(_, _)
InsertRow(sorted, r) ==
    IF sorted = <<>> THEN <<r>>
    ELSE IF TsLess(r.ts, Head(sorted).ts) THEN <<r>> \o sorted
         ELSE <<Head(sorted)>> \o InsertRow(Tail(sorted), r)

RECURSIVE SortRows(_)
SortRows(rows) ==
    IF rows = <<>> THEN <<>>
    ELSE InsertRow(SortRows(SubSeq(rows, 1, Len(rows) - 1)), rows[Len(rows)])

\* The feeding loop: add_observation for every row, on the row's day.
RECURSIVE Replay(_, _)
Replay(a, rows) ==
    IF rows = <<>> THEN a
    ELSE Replay(ArchiveAddObservation(a, Head(rows).key, Head(rows).price,
                                      Head(rows).day),
                Tail(rows))

\* The mutant of the watermark update that keeps the old watermark.
NewWatermark_Stale(a, rows) == a.last_bootstrap_ts

\* arch["last_bootstrap_ts"] = rows[-1][0]
NewWatermark(a, rows) == rows[Len(rows)].ts

\* rec.get on a line that is not an object raises AttributeError, which the
\* loop does not catch.
BootstrapRaises(lg) == \E i \in 1..Len(lg) : lg[i].kind = "nonobject"

\* The rows _archive_bootstrap_from_records feeds, in feeding order.
BootstrapRows(a, lg) ==
    IF BootstrapRaises(lg) THEN <<>>
    ELSE SortRows(CollectRows(lg, a.last_bootstrap_ts))

\* The archive after _archive_bootstrap_from_records(arch) on the store lg.
ArchiveBootstrap(a, lg) ==
    LET rows == BootstrapRows(a, lg)
    IN  IF rows = <<>> THEN a
        ELSE [Replay(a, rows) EXCEPT !.last_bootstrap_ts = NewWatermark(a, rows)]

\* The lines of the explored record stores.
LogLines ==
    {GarbageLine, NonObjectLine,
     RecordLine("datetime", 1, 5, "LON", "PAR", 1, 2, "num", Rat(80, 1)),
     RecordLine("datetime", 0, 5, "LON", "PAR", 1, 2, "num", Rat(100, 1)),
     RecordLine("date", 1, 0, "AMS", "PAR", 2, 4, "num", Rat(100, 1)),
     RecordLine("none", 0, 0, "LON", "PAR", 1, 2, "num", Rat(80, 1)),
     RecordLine("datetime", 2, 0, "LON", "PAR", 1, NoDate, "num", Rat(80, 1)),
     RecordLine("datetime", 2, 0, "", "PAR", 1, 2, "num", Rat(80, 1)),
     RecordLine("datetime", 2, 0, "LON", "PAR", 1, 2, "num", Zero),
     RecordLine("datetime", 2, 5, "LON", "PAR", 1, 2, "text", Zero),
     RecordLine("datetime", 2, 5, "LON", "PAR", 1, 2, "none", Zero)}

Logs == UNION {[1..n -> LogLines] : n \in 0..MaxLog}

\* The archives a bootstrap starts from: never bootstrapped, or bootstrapped
\* up to day 1, hour 0.
BootArchives ==
    {WithWatermark(a, ts) :
        a \in {EmptyArchive(Rat(1, 2)), EmptyArchive(DefaultGamma), ScenarioDecay},
        ts \in {NoTs, <<1, 0>>}}

InitBoot ==
    /\ stop_event = FALSE
    /\ arch \in BootArchives
    /\ log \in Logs
    /\ call = NoCall
    /\ pre = arch
    /\ batch = NoBatch
    /\ ops = 0
    /\ disk = NoDisk
    /\ pc = Idle

\* A call of _archive_bootstrap_from_records(arch).
Bootstrap ==
    LET new == ArchiveBootstrap(arch, log)
    IN  /\ pc = Idle
        /\ ops < MaxOps
        /\ Representable(new)
        /\ arch' = new
        /\ pre' = arch
        /\ call' = [op |-> "bootstrap", raised |-> BootstrapRaises(log),
                    replayed |-> BootstrapRows(arch, log),
                    changed |-> new # arch,
                    prev_op |-> call.op, prev_day |-> -1,
                    prev_changed |-> call.changed]
        /\ ops' = ops + 1
        /\ UNCHANGED <<stop_event, batch, log, disk, pc>>

NextBoot == Bootstrap

SpecBoot == InitBoot /\ [][NextBoot]_vars

(***************************************************************************)
(* The archive file (_archive_load, _archive_save).                        *)
(*                                                                         *)
(* The content of a file is what json.load makes of it: "missing" (no      *)
(* file), "unreadable" (open or read raises), "garbage" (not JSON: an      *)
(* empty or a partly written file is garbage), "nonobject" (JSON, not an   *)
(* object) or "object".  json.dump writes an object that json.load reads   *)
(* back member by member: a float is written with repr, which float reads  *)
(* back to the same float.                                                 *)
(***************************************************************************)
Unreadable == [kind |-> "unreadable"]
Garbage == [kind |-> "garbage"]
NonObject == [kind |-> "nonobject"]

\* A JSON object.  gamma_kind is "none" (no "gamma" member), "num" or "text"
\* (a string float() rejects); stats_kind is "none" (no "stats" member),
\* "object" or "other" (a member that is not an object).
JsonObject(gamma_kind, gamma, stats_kind, stats, ts) ==
    [kind |-> "object", gamma_kind |-> gamma_kind, gamma |-> gamma,
     stats_kind |-> stats_kind, stats |-> stats, last_bootstrap_ts |-> ts]

\* The archive _archive_load returns when it falls through to its last line.
FreshArchive == WithWatermark(EmptyArchive(DefaultGamma), NoTs)

\* The mutant of _archive_load that resets the whole archive when gamma or
\* stats is not as it should be.
ArchiveLoad_ResetAll(f) ==
    IF /\ f.kind = "object" /\ f.stats_kind = "object" /\ f.gamma_kind = "num"
       /\ RatLess(Zero, f.gamma) /\ RatLess(f.gamma, One)
    THEN [gamma |-> f.gamma, stats |-> f.stats,
          last_bootstrap_ts |-> f.last_bootstrap_ts]
    ELSE FreshArchive

\* _archive_load(): the object of the file if it is an object with a "stats"
\* member, with gamma set to 0.98 if it is missing or not in (0, 1) and stats
\* set to {} if it is not an object; the other members stay.  Any exception
\* (the file cannot be read, is not JSON, gamma is not a number) and any
\* other content give the fresh archive.
ArchiveLoad(f) ==
    IF f.kind = "object" /\ f.stats_kind # "none" /\ f.gamma_kind # "text"
    THEN [gamma |-> IF /\ f.gamma_kind = "num"
                       /\ RatLess(Zero, f.gamma) /\ RatLess(f.gamma, One)
                    THEN f.gamma ELSE DefaultGamma,
          stats |-> IF f.stats_kind = "object" THEN f.stats ELSE EmptyStats,
          last_bootstrap_ts |-> f.last_bootstrap_ts]
    ELSE FreshArchive

\* The mutant of json.dump that leaves out the watermark.
ArchiveDump_NoWatermark(a) ==
    JsonObject("num", a.gamma, "object", a.stats, NoTs)

\* json.dump(arch, fh, indent=2), completely written.
ArchiveDump(a) ==
    JsonObject("num", a.gamma, "object", a.stats, a.last_bootstrap_ts)

\* The mutant of open(tmp, "w") that opens the archive file itself.
OpenForWrite_InPlace(d) == [d EXCEPT !.file = Garbage]

\* open(tmp, "w"): the temporary file exists and is empty.
OpenForWrite(d) == [d EXCEPT !.tmp = Garbage]

\* The with block has ended: the temporary file holds the whole document.
WriteAll(d, doc) == [d EXCEPT !.tmp = doc]

\* os.replace(tmp, path)
Replace(d) == [file |-> d.tmp, tmp |-> NoFile]

\* The statistics of one arm, as a file can hold them.
OneArmStats ==
    [k \in {ArchiveKey("LON", "PAR", 1, 2)} |->
        [mu |-> Rat(100, 1), var |-> One, n |-> Rat(3, 2), last_date |-> 0]]

\* The contents of the archive file the exploration starts from.
Files ==
    {NoFile, Unreadable, Garbage, NonObject,
     JsonObject("num", Rat(1, 2), "object", OneArmStats, <<1, 0>>),
     JsonObject("num", DefaultGamma, "object", EmptyStats, NoTs),
     JsonObject("none", Zero, "object", OneArmStats, <<1, 0>>),
     JsonObject("num", Rat(3, 2), "object", OneArmStats, NoTs),
     JsonObject("num", Zero, "object", OneArmStats, <<1, 0>>),
     JsonObject("text", Zero, "object", OneArmStats, <<1, 0>>),
     JsonObject("num", Rat(1, 2), "other", EmptyStats, <<1, 0>>),
     JsonObject("num", Rat(1, 2), "none", EmptyStats, <<1, 0>>)}

\* Archives in memory: loaded, and loaded and updated by one observation.
MemoryArchives ==
    {ArchiveLoad(f) : f \in Files}
    \cup {ArchiveAddObservation(ArchiveLoad(f), ArchiveKey("AMS", "PAR", 2, 4),
                                Rat(80, 1), 1) : f \in Files}

InitDisk ==
    /\ stop_event = FALSE
    /\ arch \in MemoryArchives
    /\ disk \in [file : Files, tmp : {NoFile, Garbage}]
    /\ call = NoCall
    /\ pre = arch
    /\ batch = NoBatch
    /\ ops = 0
    /\ log = <<>>
    /\ pc = Idle

\* The process has stopped; was is where it stopped.
Stopped(was) == [at |-> "stopped", was |-> was]

\* The position to go on from after a save that failed.
MarkFailed(ret) == IF ret.at = "idle" THEN ret ELSE [ret EXCEPT !.clean = FALSE]

\* _archive_save(arch) is entered; ret is where its caller goes on.  The
\* caller says what becomes of ops.
SaveBegin(ret) ==
    /\ pc' = [at |-> "save_open", ret |-> ret]
    /\ call' = [op |-> "save", saved |-> arch, old_file |-> disk.file,
                done |-> FALSE, failed |-> FALSE, changed |-> FALSE,
                prev_op |-> call.op, prev_day |-> -1,
                prev_changed |-> call.changed]
    /\ UNCHANGED <<stop_event, arch, pre, batch, log, disk>>

\* with open(tmp, "w") as fh
SaveOpen ==
    /\ pc.at = "save_open"
    /\ disk' = OpenForWrite(disk)
    /\ pc' = [pc EXCEPT !.at = "save_write"]
    /\ UNCHANGED <<stop_event, arch, call, pre, batch, ops, log>>

\* json.dump(arch, fh, indent=2), to the end of the with block
SaveWrite ==
    /\ pc.at = "save_write"
    /\ disk' = WriteAll(disk, ArchiveDump(arch))
    /\ pc' = [pc EXCEPT !.at = "save_replace"]
    /\ UNCHANGED <<stop_event, arch, call, pre, batch, ops, log>>

\* os.replace(tmp, path), and the return
SaveReplace ==
    /\ pc.at = "save_replace"
    /\ disk' = Replace(disk)
    /\ call' = [call EXCEPT !.done = TRUE]
    /\ pc' = pc.ret
    /\ UNCHANGED <<stop_event, arch, pre, batch, ops, log>>

\* open, json.dump or os.replace raises: except Exception: pass
SaveFail ==
    /\ pc.at \in {"save_open", "save_write", "save_replace"}
    /\ call' = [call EXCEPT !.failed = TRUE]
    /\ pc' = MarkFailed(pc.ret)
    /\ UNCHANGED <<stop_event, arch, pre, batch, ops, log, disk>>

\* The process stops where it is: in the middle of a save, or anywhere in
\* the monitor thread.
Crash ==
    /\ pc.at \notin {"idle", "stopped", "dead", "ended"}
    /\ pc' = Stopped(pc)
    /\ UNCHANGED <<stop_event, arch, call, pre, batch, ops, log, disk>>

\* A call of _archive_save(arch).
Save ==
    /\ pc = Idle
    /\ ops < MaxOps
    /\ ops' = ops + 1
    /\ SaveBegin(Idle)

\* A call of _archive_load(), in the running process or in a new one.
Load ==
    /\ pc = Idle \/ pc.at = "stopped"
    /\ ops < MaxOps
    /\ arch' = ArchiveLoad(disk.file)
    /\ pre' = arch
    /\ call' = [op |-> "archive_load", file |-> disk.file,
                after_save |-> pc = Idle /\ call.op = "save" /\ call.done,
                saved |-> arch, changed |-> ArchiveLoad(disk.file) # arch,
                prev_op |-> call.op, prev_day |-> -1,
                prev_changed |-> call.changed]
    /\ ops' = ops + 1
    /\ pc' = Idle
    /\ UNCHANGED <<stop_event, batch, log, disk>>

NextDisk == Save \/ SaveOpen \/ SaveWrite \/ SaveReplace \/ SaveFail \/ Crash \/ Load

SpecDisk == InitDisk /\ [][NextDisk]_vars

(***************************************************************************)
(* The random-mode sweep of _monitor_loop.                                 *)
(***************************************************************************)
\* At most MaxProbes probes are started.
MaxProbes == 2

\* samples_per_sweep in random mode, random_floor_frac and beam_k of the call
\* of propose_batch, and the penalty factor and the default penalty of a
\* probe without result.
SamplesPerSweep == 10
SweepFrac == Rat(1, 10)
SweepBeamK == 20
PenaltyFactor == Rat(110, 100)
DefaultPenalty == One

\* _get_global_best_price(): best starts as None and takes the price of a
\* line when it is None or the price is smaller.  best is [kind, v] with kind
\* "none" (None), "num", "text" (a string) or "raised": rec.get on a line
\* that is not an object, and p < best between a number and None or a
\* string, raise.
BestStep(best, l) ==
    IF best.kind = "raised" \/ l.kind = "garbage" THEN best
    ELSE IF l.kind = "nonobject" THEN [kind |-> "raised", v |-> Zero]
    ELSE IF best.kind = "none" THEN [kind |-> l.price_kind, v |-> l.price]
    ELSE IF best.kind = "num" /\ l.price_kind = "num"
         THEN (IF RatLess(l.price, best.v) THEN [kind |-> "num", v |-> l.price]
               ELSE best)
    ELSE IF best.kind = "text" /\ l.price_kind = "text" THEN best
    ELSE [kind |-> "raised", v |-> Zero]

RECURSIVE BestOver(_, _)
BestOver(best, lg) ==
    IF lg = <<>> THEN best ELSE BestOver(BestStep(best, Head(lg)), Tail(lg))

GlobalBestPrice(lg) == BestOver([kind |-> "none", v |-> Zero], lg)

\* gb is not None and gb > 0 raises for a string.
PenaltyRaises(gb) == gb.kind \in {"raised", "text"}

\* y = (gb * 1.10) if (gb is not None and gb > 0) else 1.0
FailurePenalty(gb) ==
    IF gb.kind = "num" /\ RatLess(Zero, gb.v) THEN RatMul(gb.v, PenaltyFactor)
    ELSE DefaultPenalty

\* The date pool of a sweep: empty without durations.
SweepDates(params) == IF params.durations = <<>> THEN <<>> ELSE params.dates

\* The batches propose_batch can return in a sweep.
Proposals(a, params) ==
    LET q == Max(1, SamplesPerSweep)
        universe == DrawUniverse(params.deps, params.dests, SweepDates(params),
                                 params.durations)
    IN  UNION {UNION {
          LET ts == ThompsonPick(a.stats, sample, q)
              sur == SurrogatePick(a, fit, params.deps, params.dests,
                                   SweepDates(params), params.durations,
                                   SweepBeamK, q)
          IN  {DedupCap(ts \o sur \o rnd, <<>>, q) :
                 rnd \in RandomFloor(ts \o sur, <<>>, QRand(q, SweepFrac), universe)}
          : fit \in FitAdditiveSurrogate(a)} : sample \in ThompsonSamples(a.stats)}

\* The parameters of the explored sweeps.
SweepParams ==
    {[deps |-> <<"LON", "AMS">>, dests |-> <<"PAR">>, dates |-> <<1>>,
      durations |-> <<1>>],
     [deps |-> <<"LON">>, dests |-> <<"PAR">>, dates |-> <<1>>,
      durations |-> <<>>]}

\* The record stores of the explored sweeps.  save_record writes records
\* without dep_date and arrival_date.
SweepLogs ==
    {<<>>,
     <<RecordLine("datetime", 1, 5, "LON", "PAR", NoDate, NoDate, "num", Rat(80, 1))>>,
     <<RecordLine("datetime", 0, 5, "LON", "PAR", 1, 2, "num", Rat(100, 1)),
       RecordLine("datetime", 1, 5, "LON", "PAR", 1, 2, "num", Rat(80, 1))>>,
     <<RecordLine("datetime", 2, 0, "LON", "PAR", 1, 2, "num", Zero)>>,
     <<RecordLine("datetime", 1, 5, "LON", "PAR", 1, 2, "num", Rat(80, 1)),
       RecordLine("datetime", 2, 5, "LON", "PAR", 1, 2, "none", Zero)>>,
     <<RecordLine("datetime", 2, 5, "LON", "PAR", 1, 2, "text", Zero)>>,
     <<GarbageLine, NonObjectLine>>}

\* The archive files of the explored sweeps.
SweepFiles ==
    {NoFile, Garbage,
     JsonObject("num", Rat(1, 2), "object", OneArmStats, NoTs)}

\* The exception has ended the thread; was is where it was raised.
Dead(was) == [at |-> "dead", was |-> was]

\* The thread has left the while loop.
Ended(was) == [at |-> "ended", was |-> was]

InitSweep ==
    /\ stop_event = FALSE
    /\ arch = FreshArchive
    /\ pre = arch
    /\ call = NoCall
    /\ batch = NoBatch
    /\ ops = 0
    /\ log \in SweepLogs
    /\ disk \in [file : SweepFiles, tmp : {NoFile}]
    /\ \E params \in SweepParams, clock \in Days :
          pc = [at |-> "start", params |-> params, today |-> NoDate,
                todo |-> <<>>, probes |-> 0, clean |-> TRUE, in_loop |-> FALSE,
                outcome |-> "none", aborted |-> FALSE, clock |-> clock]

\* arch = self._archive_load()
MonitorLoad ==
    /\ pc.at = "start"
    /\ arch' = ArchiveLoad(disk.file)
    /\ pre' = arch
    /\ call' = [op |-> "archive_load", file |-> disk.file, after_save |-> FALSE,
                saved |-> arch, changed |-> ArchiveLoad(disk.file) # arch,
                prev_op |-> call.op, prev_day |-> -1,
                prev_changed |-> call.changed]
    /\ pc' = [pc EXCEPT !.at = "loaded"]
    /\ UNCHANGED <<stop_event, batch, ops, log, disk>>

\* self._archive_bootstrap_from_records(arch)
MonitorBootstrap ==
    LET new == ArchiveBootstrap(arch, log)
    IN  /\ pc.at = "loaded"
        /\ Representable(new)
        /\ arch' = new
        /\ pre' = arch
        /\ call' = [op |-> "bootstrap", raised |-> BootstrapRaises(log),
                    replayed |-> BootstrapRows(arch, log),
                    changed |-> new # arch,
                    prev_op |-> call.op, prev_day |-> -1,
                    prev_changed |-> call.changed]
        /\ pc' = IF BootstrapRaises(log) THEN Dead(pc)
                 ELSE [pc EXCEPT !.at = "bootstrapped"]
        /\ UNCHANGED <<stop_event, batch, ops, log, disk>>

\* The mutant of the ingestion that reads the calendar anew.
IngestDay_Now(p) == p.clock

\* The day the loop stamps its ingestions with: today_str, set once before
\* the while loop.
IngestDay(p) == p.today

\* today_str = datetime.now().strftime("%Y-%m-%d");
\* self._archive_decay(arch, today_str)
MonitorDecay ==
    LET today == pc.clock
        new == ArchiveDecay(arch, today)
    IN  /\ pc.at = "bootstrapped"
        /\ Representable(new)
        /\ arch' = new
        /\ pre' = arch
        /\ call' = [op |-> "decay", day |-> today, changed |-> new # arch,
                    prev_op |-> call.op, prev_day |-> -1,
                    prev_changed |-> call.changed]
        /\ pc' = [pc EXCEPT !.at = "decayed", !.today = today]
        /\ UNCHANGED <<stop_event, batch, ops, log, disk>>

\* self._archive_save(arch), before the while loop
MonitorSave ==
    /\ pc.at = "decayed"
    /\ SaveBegin([pc EXCEPT !.at = "sweep_top"])
    /\ UNCHANGED ops

\* The mutant of the loop that does not look at the stop event when the
\* probe has returned.
StopAfterProbe_Unchecked == FALSE

\* The stop event is seen when the probe has returned.
StopAfterProbe == stop_event

\* The while loop goes round: propose_batch, and the for loop is entered.
SweepPropose ==
    /\ pc.at = "sweep_top" /\ ~stop_event
    /\ \E out \in Proposals(arch, pc.params) :
          pc' = [pc EXCEPT !.at = "probe", !.todo = out, !.in_loop = TRUE]
    /\ UNCHANGED <<stop_event, arch, call, pre, batch, ops, log, disk>>

\* The for loop has no proposal left.
SweepDone ==
    /\ pc.at = "probe" /\ pc.todo = <<>>
    /\ pc' = [pc EXCEPT !.at = "sweep_top"]
    /\ UNCHANGED <<stop_event, arch, call, pre, batch, ops, log, disk>>

\* The stop event is seen set: by the while loop, by the for loop before a
\* probe, or when the probe has returned; the thread leaves the loops.
SweepStop ==
    /\ \/ pc.at = "sweep_top" /\ stop_event
       \/ pc.at = "probe" /\ pc.todo # <<>> /\ stop_event
       \/ pc.at = "probed" /\ StopAfterProbe
    /\ pc' = Ended(pc)
    /\ UNCHANGED <<stop_event, arch, call, pre, batch, ops, log, disk>>

\* _on_cancel in the GUI thread, while the monitor thread is alive: the stop
\* event is set; request_cancel quits the driver of a probe in progress,
\* which makes it return early.
Cancel ==
    /\ pc.at \notin {"idle", "stopped", "dead", "ended"}
    /\ ~stop_event
    /\ stop_event' = TRUE
    /\ UNCHANGED <<arch, call, pre, batch, ops, log, disk, pc>>

\* The body of the for loop is entered for the next proposal.
ProbeReady ==
    /\ pc.at = "probe" /\ pc.todo # <<>>
    /\ ~stop_event
    /\ pc.probes < MaxProbes

\* prev_best = self._get_global_best_price() returns and bot.start() is
\* called.
ProbeStart ==
    /\ ProbeReady
    /\ GlobalBestPrice(log).kind # "raised"
    /\ pc' = [pc EXCEPT !.at = "probing", !.probes = @ + 1]
    /\ UNCHANGED <<stop_event, arch, call, pre, batch, ops, log, disk>>

\* What bot.start() hands back: rec is None with _offline set, rec is None
\* without it, or rec is a result.
Outcomes == {"offline", "no_result", "result"}

\* bot.start() returns.  A probe whose driver was quit by request_cancel
\* returns None, with _offline set when driver.get raised, and a probe that
\* had its page already returns its result.
ProbeReturn ==
    /\ pc.at = "probing"
    /\ \E o \in Outcomes :
          pc' = [pc EXCEPT !.at = "probed", !.outcome = o,
                           !.aborted = stop_event]
    /\ UNCHANGED <<stop_event, arch, call, pre, batch, ops, log, disk>>

\* The stop event is not set when the probe has returned.
ProbeChecked ==
    /\ pc.at = "probed" /\ ~StopAfterProbe
    /\ pc' = [pc EXCEPT !.at = "handle"]
    /\ UNCHANGED <<stop_event, arch, call, pre, batch, ops, log, disk>>

\* The mutant of the handling of an offline probe that goes on as for a
\* probe without result.
OfflineSeen_Never(p) == FALSE

\* if is_offline
OfflineSeen(p) == p.outcome = "offline"

\* if not rec, reached when the probe was not offline
NoResultSeen(p) == ~OfflineSeen(p) /\ p.outcome \in {"offline", "no_result"}

\* prev_best = self._get_global_best_price() raises, or gb > 0 does after a
\* probe without result.
ProbeRaises ==
    /\ \/ ProbeReady /\ GlobalBestPrice(log).kind = "raised"
       \/ /\ pc.at = "handle" /\ NoResultSeen(pc)
          /\ PenaltyRaises(GlobalBestPrice(log))
    /\ pc' = Dead(pc)
    /\ UNCHANGED <<stop_event, arch, call, pre, batch, ops, log, disk>>

\* The executor is offline: the wait, and the break out of the for loop.
ProbeOffline ==
    /\ pc.at = "handle" /\ OfflineSeen(pc)
    /\ pc' = [pc EXCEPT !.at = "sweep_top", !.todo = <<>>]
    /\ UNCHANGED <<stop_event, arch, call, pre, batch, ops, log, disk>>

\* The mutant of the step after an ingestion that goes on to the next probe
\* without the save.
AfterIngest_NoSave(p) ==
    [p EXCEPT !.at = "probe", !.todo = Tail(@)]

\* After an ingestion the archive is to be saved.
AfterIngest(p) ==
    [p EXCEPT !.at = "ingested", !.todo = Tail(@)]

\* The probe has no result: the penalty is ingested for the arm.
ProbeNoResult ==
    LET gb == GlobalBestPrice(log)
        y == FailurePenalty(gb)
        key == Head(pc.todo)
        new == ArchiveAddObservation(arch, key, y, IngestDay(pc))
    IN  /\ pc.at = "handle" /\ NoResultSeen(pc)
        /\ ~PenaltyRaises(gb)
        /\ Representable(new)
        /\ arch' = new
        /\ pre' = arch
        /\ call' = [op |-> "ingest_failure", key |-> key, y |-> y,
                    day |-> IngestDay(pc), now |-> pc.clock, gb |-> gb,
                    changed |-> new # arch,
                    prev_op |-> call.op, prev_day |-> -1,
                    prev_changed |-> call.changed]
        /\ pc' = AfterIngest(pc)
        /\ UNCHANGED <<stop_event, batch, ops, log, disk>>

\* The probe has a result: record_mgr.save_record is called with nine
\* arguments and takes seven, which raises TypeError before anything is
\* written or ingested.
ProbeResult ==
    /\ pc.at = "handle" /\ ~OfflineSeen(pc) /\ ~NoResultSeen(pc)
    /\ pc' = Dead(pc)
    /\ UNCHANGED <<stop_event, arch, call, pre, batch, ops, log, disk>>

\* self._archive_save(arch) after the ingestion; continue with the for loop.
IngestSave ==
    /\ pc.at = "ingested"
    /\ SaveBegin([pc EXCEPT !.at = "probe"])
    /\ UNCHANGED ops

NextSweep ==
    \/ MonitorLoad \/ MonitorBootstrap \/ MonitorDecay \/ MonitorSave
    \/ SweepPropose \/ SweepDone \/ SweepStop \/ Cancel
    \/ ProbeStart \/ ProbeReturn \/ ProbeChecked
    \/ ProbeRaises \/ ProbeOffline \/ ProbeNoResult \/ ProbeResult
    \/ IngestSave \/ SaveOpen \/ SaveWrite \/ SaveReplace \/ SaveFail \/ Crash

SpecSweep == InitSweep /\ [][NextSweep]_vars

\* The sweep across day changes.  The calendar day (datetime.now()) is
\* pc.clock; Midnight moves it on while the monitor thread runs (a day change
\* during a save is seen when the save has returned).
InitClock ==
    /\ stop_event = FALSE
    /\ arch = FreshArchive
    /\ pre = arch
    /\ call = NoCall
    /\ batch = NoBatch
    /\ ops = 0
    /\ log \in SweepLogs
    /\ disk = [file |-> NoFile, tmp |-> NoFile]
    /\ pc = [at |-> "start",
             params |-> [deps |-> <<"LON", "AMS">>, dests |-> <<"PAR">>,
                         dates |-> <<1>>, durations |-> <<1>>],
             today |-> NoDate, todo |-> <<>>, probes |-> 0, clean |-> TRUE,
             in_loop |-> FALSE, outcome |-> "none", aborted |-> FALSE, clock |-> 0]

Midnight ==
    /\ pc.at \notin {"idle", "stopped", "dead", "ended",
                     "save_open", "save_write", "save_replace"}
    /\ pc.clock < MaxDay
    /\ pc' = [pc EXCEPT !.clock = @ + 1]
    /\ UNCHANGED <<stop_event, arch, call, pre, batch, ops, log, disk>>

NextClock == NextSweep \/ Midnight

SpecClock == InitClock /\ [][NextClock]_vars

(***************************************************************************)
(* The weighted ridge fit of _fit_additive_surrogate, computed exactly.    *)
(***************************************************************************)
\* lam = 1e-3
RidgeLambda == Rat(1, 1000)

\* p / q for q # 0.
RatDiv(p, q) ==
    IF IsHuge(p) \/ IsHuge(q) THEN HUGE
    ELSE IF q[1] < 0 THEN RatMul(p, <<-q[2], -q[1]>>)
    ELSE RatMul(p, <<q[2], q[1]>>)

\* A set as a list.
RECURSIVE ListOf(_)
ListOf(S) ==
    IF S = {} THEN <<>>
    ELSE LET x == CHOOSE y \in S : TRUE IN <<x>> \o ListOf(S \ {x})

\* The columns of the design matrix: one per distinct origin, then one per
\* distinct destination, then one per distinct outbound date, as
\* <<field, value>> with field 1, 2, 3 of the arm key.
DesignColumns(stats) ==
    ListOf({<<1, k[1]>> : k \in DOMAIN stats})
        \o ListOf({<<2, k[2]>> : k \in DOMAIN stats})
        \o ListOf({<<3, k[3]>> : k \in DOMAIN stats})

\* X[r, c]: 1.0 where the arm of the row has the value of the column.
Indicator(k, col) == IF k[col[1]] = col[2] THEN One ELSE Zero

RECURSIVE RatSum(_, _)
RatSum(f, keys) ==
    IF keys = <<>> THEN Zero ELSE RatAdd(f[Head(keys)], RatSum(f, Tail(keys)))

\* The mutant of the sample weight that weighs every arm alike.
SampleWeight_Uniform(s) == Rat(1, 1000)

\* max(0.0, float(s.get("n", 0.0)))
SampleWeight(s) == RatMax(Zero, s.n)

\* A list given by its elements, each computed once.
Computed(s) == s \o <<>>

\* The augmented matrix [X^T W X + lam * I | X^T W y] over the columns cols.
NormalEquations(stats, cols) ==
    LET keys == ListOf(DOMAIN stats)
        p == Len(cols)
    IN  Computed([i \in 1..p |->
           Computed([j \in 1..(p + 1) |->
              IF j <= p
              THEN RatAdd(RatSum([k \in DOMAIN stats |->
                                    RatMul(SampleWeight(stats[k]),
                                           RatMul(Indicator(k, cols[i]),
                                                  Indicator(k, cols[j])))], keys),
                          IF i = j THEN RidgeLambda ELSE Zero)
              ELSE RatSum([k \in DOMAIN stats |->
                             RatMul(RatMul(SampleWeight(stats[k]),
                                           Indicator(k, cols[i])),
                                    stats[k].mu)], keys)])])

\* One step of the elimination: row i is divided by its pivot and taken out
\* of the other rows.
EliminateColumn(M, i) ==
    LET p == Len(M)
        row == Computed([j \in 1..(p + 1) |-> RatDiv(M[i][j], M[i][i])])
    IN  Computed([r \in 1..p |->
           IF r = i THEN row
           ELSE Computed([j \in 1..(p + 1) |->
                            RatSub(M[r][j], RatMul(M[r][i], row[j]))])])

\* np.linalg.solve(A, b): the matrix is positive definite, so every pivot is
\* positive and the solution is unique.
RECURSIVE Eliminate(_, _)
Eliminate(M, i) ==
    IF i > Len(M) THEN M ELSE Eliminate(EliminateColumn(M, i), i + 1)

LinearSolve(M) == LET R == Eliminate(M, 1) IN [i \in 1..Len(M) |-> R[i][Len(M) + 1]]

\* The three maps of the fit.
RidgeFit(a) ==
    LET cols == DesignColumns(a.stats)
        coef == LinearSolve(NormalEquations(a.stats, cols))
        Map(field) ==
            [v \in {k[field] : k \in DOMAIN a.stats} |->
                coef[CHOOSE i \in 1..Len(cols) :
                        cols[i][1] = field /\ cols[i][2] = v]]
    IN  IF DOMAIN a.stats = {} THEN [alpha |-> <<>>, beta |-> <<>>, gamma |-> <<>>]
        ELSE [alpha |-> Map(1), beta |-> Map(2), gamma |-> Map(3)]

\* The arms and the statistics of the archives the fit is computed for:
\* weights of the order of the ridge penalty, which old arms decay to, and a
\* weight of zero.
FitArms ==
    {ArchiveKey("LON", "PAR", 1, 2), ArchiveKey("AMS", "PAR", 2, 4),
     ArchiveKey("LON", "PAR", 2, 3)}

FitStats ==
    {[n |-> w, mu |-> Rat(100, 1), var |-> One, last_date |-> 0] :
        w \in {Rat(1, 1000), Zero}}
    \cup {[n |-> w, mu |-> Rat(80, 1), var |-> One, last_date |-> 0] :
            w \in {Rat(1, 500), Rat(3, 1000)}}

FitArchives ==
    UNION {{[gamma |-> DefaultGamma, stats |-> st] : st \in [S -> FitStats]} :
             S \in SUBSET FitArms}

InitFit ==
    /\ stop_event = FALSE
    /\ arch \in FitArchives
    /\ call = NoCall
    /\ pre = arch
    /\ batch = NoBatch
    /\ ops = 0
    /\ log = <<>>
    /\ disk = NoDisk
    /\ pc = Idle

\* A call of _fit_additive_surrogate.
Fit ==
    LET fit == RidgeFit(arch)
    IN  /\ call.op # "fit"
        /\ \A x \in DOMAIN fit.alpha : ~IsHuge(fit.alpha[x])
        /\ \A x \in DOMAIN fit.beta : ~IsHuge(fit.beta[x])
        /\ \A x \in DOMAIN fit.gamma : ~IsHuge(fit.gamma[x])
        /\ batch' = [NoBatch EXCEPT !.fit = fit]
        /\ call' = [op |-> "fit", changed |-> FALSE, prev_op |-> call.op,
                    prev_day |-> -1, prev_changed |-> call.changed]
        /\ pre' = arch
        /\ UNCHANGED <<stop_event, arch, ops, log, disk, pc>>

NextFit == Fit

SpecFit == InitFit /\ [][NextFit]_vars

(***************************************************************************)
(* The operations on the arms of a loaded archive, in any order.           *)
(***************************************************************************)
\* An archive file whose arm was last stamped with a day string that does not
\* parse (written by the replay of a store line stamped "2026-0-5-10", or by
\* hand): _archive_load returns its stats as they are.
MalformedArchive ==
    [gamma |-> Rat(98, 100),
     stats |-> [k \in {ArchiveKey("LON", "PAR", 1, 2)} |->
                  [mu |-> Rat(100, 1), var |-> One, n |-> One, last_date |-> BadDay]]]

\* The lines of the explored record stores: a line whose four-part timestamp
\* is no date, and a line with a date.
ArmLogLines ==
    {RecordLine("datetime", BadDay, 5, "LON", "PAR", 1, 2, "num", Rat(80, 1)),
     RecordLine("date", 1, 0, "AMS", "PAR", 2, 4, "num", Rat(100, 1))}

ArmLogs == UNION {[1..n -> ArmLogLines] : n \in 0..2}

InitArms ==
    /\ stop_event = FALSE
    /\ arch \in {WithWatermark(a, NoTs) :
                    a \in {EmptyArchive(DefaultGamma), ScenarioIngest, MalformedArchive}}
    /\ log \in ArmLogs
    /\ call = NoCall
    /\ pre = arch
    /\ batch = NoBatch
    /\ ops = 0
    /\ disk = NoDisk
    /\ pc = Idle

\* A call of _propose_batch_ts_additive on the loaded archive.  The call
\* leaves the archive as it is whatever the archive holds, so it is explored
\* before the operations that change the arms.
ProposeOnArms ==
    /\ call.op # "propose"
    /\ ops = 0
    /\ ProposeCall(<<"LON", "AMS">>, <<"PAR">>, <<1, 2>>, <<2, 1>>, 1, Rat(1, 10), 1)

NextArms == Decay \/ AddObservation \/ Bootstrap \/ ProposeOnArms

SpecArms == InitArms /\ [][NextArms]_vars

(***************************************************************************)
(* The arm key as a string (_archive_key and the split of propose_batch).  *)
(*                                                                         *)
(* A string is the sequence of its characters.                             *)
(***************************************************************************)
\* The mutant of _archive_key that joins the fields without a delimiter.
KeyString_Undelimited(dep, dest, dep_date, ret_date) ==
    dep \o dest \o dep_date \o ret_date

\* f"{dep}|{dest}|{dep_date}|{ret_date}"
KeyString(dep, dest, dep_date, ret_date) ==
    dep \o <<"|">> \o dest \o <<"|">> \o dep_date \o <<"|">> \o ret_date

\* k.split("|"): the pieces of k between the delimiters, one piece more than
\* there are delimiters.
RECURSIVE SplitKey(_)
SplitKey(k) ==
    IF \A i \in 1..Len(k) : k[i] # "|" THEN <<k>>
    ELSE LET i == CHOOSE j \in 1..Len(k) :
                      k[j] = "|" /\ \A h \in 1..(j - 1) : k[h] # "|"
         IN  <<SubSeq(k, 1, i - 1)>> \o SplitKey(SubSeq(k, i + 1, Len(k)))

\* dep, dest, dd, rd = k.split("|") raises unless there are four pieces; the
\* loop then skips the arm.
Unpacks(k) == Len(SplitKey(k)) = 4

\* The field values of the explored arms: two codes of which one is a prefix
\* of the other, and a value holding the delimiter.
FieldStrings == {<<"A">>, <<"A", "A">>, <<"A", "|", "A">>}

ArmFields == [1..4 -> FieldStrings]

KeyOf(f) == KeyString(f[1], f[2], f[3], f[4])

InitKey ==
    /\ stop_event = FALSE
    /\ arch = EmptyArchive(DefaultGamma)
    /\ call = NoCall
    /\ pre = arch
    /\ batch = NoBatch
    /\ ops = 0
    /\ log = <<>>
    /\ disk = NoDisk
    /\ pc = Idle

\* The keys of two arms are built and split again.
BuildKeys ==
    \E a \in ArmFields, b \in ArmFields :
        /\ call.op # "key"
        /\ call' = [op |-> "key", a |-> a, b |-> b,
                    key_a |-> KeyOf(a), key_b |-> KeyOf(b),
                    parts_a |-> SplitKey(KeyOf(a)), parts_b |-> SplitKey(KeyOf(b)),
                    changed |-> FALSE, prev_op |-> call.op, prev_day |-> -1,
                    prev_changed |-> call.changed]
        /\ UNCHANGED <<stop_event, arch, pre, batch, ops, log, disk, pc>>

NextKey == BuildKeys

SpecKey == InitKey /\ [][NextKey]_vars

(***************************************************************************)
(* The record store of flight_record.py (FlightRecord.save_record,         *)
(* FlightRecord.load_record).  The file is the sequence of its lines; a    *)
(* line json.dumps writes is read back by json.loads as the same record.   *)
(***************************************************************************)
\* At most MaxSaves calls of save_record are explored.
MaxSaves == 3

\* existing_price = None: no line of the file has the key.
NoPrice == <<>>

\* The line save_record writes for a scrape (the carrier and the durations
\* are carried along like the departure).
SavedLine(datetime_key, departure, price) ==
    [kind |-> "record", datetime |-> datetime_key, departure |-> departure,
     price |-> price]

\* The read loop: existing_price is the price of the last line with the key.
RECURSIVE ExistingPrice(_, _)
ExistingPrice(store, datetime_key) ==
    IF store = <<>> THEN NoPrice
    ELSE LET l == store[Len(store)]
         IN  IF l.kind = "record" /\ l.datetime = datetime_key THEN l.price
             ELSE ExistingPrice(SubSeq(store, 1, Len(store) - 1), datetime_key)

\* The read loop: records holds the parsed lines with another key, in the
\* order of the file.
RECURSIVE OtherRecords(_, _)
OtherRecords(store, datetime_key) ==
    IF store = <<>> THEN <<>>
    ELSE (IF Head(store).kind = "record" /\ Head(store).datetime # datetime_key
          THEN <<Head(store)>> ELSE <<>>)
         \o OtherRecords(Tail(store), datetime_key)

\* The mutant of the early return that never keeps the stored record.
KeepsStored_Never(existing_price, price) == FALSE

\* existing_price is not None and existing_price <= price
KeepsStored(existing_price, price) ==
    existing_price # NoPrice /\ ~RatLess(price, existing_price)

\* save_record(datetime_key, departure, ..., price): the file after the call.
SaveRecord(store, datetime_key, departure, price) ==
    IF KeepsStored(ExistingPrice(store, datetime_key), price) THEN store
    ELSE Append(OtherRecords(store, datetime_key),
                SavedLine(datetime_key, departure, price))

\* load_record(datetime_key): the first line with the key, or None.
RECURSIVE LoadRecord(_, _)
LoadRecord(store, datetime_key) ==
    IF store = <<>> THEN NoPrice
    ELSE IF Head(store).kind = "record" /\ Head(store).datetime = datetime_key
         THEN Head(store)
         ELSE LoadRecord(Tail(store), datetime_key)

\* The hours, departures and prices of the explored scrapes.
HourKeys == {<<0, 5>>, <<0, 6>>}
StoreDepartures == {"LON", "AMS"}
StorePrices == {Rat(80, 1), Rat(90, 1), Rat(100, 1)}

\* FlightRecord(path) on a path without a file: touch creates an empty file.
InitStore ==
    /\ stop_event = FALSE
    /\ arch = EmptyArchive(DefaultGamma)
    /\ call = [op |-> "open", changed |-> FALSE, prev_op |-> "none",
               prev_day |-> -1, prev_changed |-> FALSE,
               saved |-> [k \in HourKeys |-> {}]]
    /\ pre = arch
    /\ batch = NoBatch
    /\ ops = 0
    /\ log = <<>>
    /\ disk = NoDisk
    /\ pc = Idle

\* A call of save_record.  saved collects the prices saved under each key.
SaveRecordCall ==
    \E datetime_key \in HourKeys, departure \in StoreDepartures, price \in StorePrices :
        /\ ops < MaxSaves
        /\ log' = SaveRecord(log, datetime_key, departure, price)
        /\ call' = [op |-> "save", key |-> datetime_key, departure |-> departure,
                    price |-> price, before |-> log,
                    existing |-> ExistingPrice(log, datetime_key),
                    changed |-> log' # log, prev_op |-> call.op, prev_day |-> -1,
                    prev_changed |-> call.changed,
                    saved |-> [call.saved EXCEPT ![datetime_key] = @ \cup {price}]]
        /\ ops' = ops + 1
        /\ UNCHANGED <<stop_event, arch, pre, batch, disk, pc>>

NextStore == SaveRecordCall

SpecStore == InitStore /\ [][NextStore]_vars

(***************************************************************************)
(* One probe of flight_bot.py (FlightBot.start, _get_current_price,        *)
(* request_cancel).  The probe runs in the monitor thread; request_cancel  *)
(* runs in the GUI thread and quits the driver under it.  pc holds the     *)
(* position of the probe, the fields _offline and _driver of the bot, and  *)
(* what the run met: reachable (the network answers), neterror (the driver *)
(* could not start or the navigation met a network error), killed (the     *)
(* driver was quit while a command was in flight).                         *)
(***************************************************************************)
\* At most MaxRuns calls of start() on one bot are explored.
MaxRuns == 2

BotIdle(offline, runs) ==
    [at |-> "bot_idle", offline |-> offline, driver |-> FALSE, reachable |-> TRUE,
     neterror |-> FALSE, killed |-> FALSE, raised |-> FALSE, ret |-> "none",
     page |-> "none", prev_offline |-> offline, runs |-> runs]

\* start() returns ret; _quit_driver has run on every path out of
\* _get_current_price that had a driver.
BotReturn(p, ret, offline) ==
    [p EXCEPT !.at = "bot_returned", !.ret = ret, !.offline = offline,
              !.driver = FALSE]

\* _is_cancelled()
IsCancelled == stop_event

InitBot ==
    /\ stop_event = FALSE
    /\ arch = EmptyArchive(DefaultGamma)
    /\ call = NoCall
    /\ pre = arch
    /\ batch = NoBatch
    /\ ops = 0
    /\ log = <<>>
    /\ disk = NoDisk
    /\ pc \in {BotIdle(offline, 0) : offline \in BOOLEAN}

\* The mutant of start() that keeps the offline flag of the earlier run.
ResetOffline_Kept(p) == p.offline

\* self._offline = False at the top of start().
ResetOffline(p) == FALSE

\* start() up to the call of _get_current_price: the flag is cleared, and a
\* cancelled run returns None at once.
BotStart ==
    /\ pc.at \in {"bot_idle", "bot_returned"}
    /\ pc.runs < MaxRuns
    /\ \E reachable \in BOOLEAN :
         LET p == [BotIdle(ResetOffline(pc), pc.runs + 1) EXCEPT
                       !.reachable = reachable, !.prev_offline = pc.offline]
         IN  pc' = IF IsCancelled THEN BotReturn(p, "none", p.offline)
                   ELSE [p EXCEPT !.at = "launch"]
    /\ UNCHANGED <<stop_event, arch, call, pre, batch, ops, log, disk>>

\* _get_current_price up to the first cancel check: the flag is cleared
\* again and the driver is started.  WebDriverException marks the run
\* offline; any other exception reaches the except branch of start().
BotLaunch ==
    /\ pc.at = "launch"
    /\ \E outcome \in {"started", "webdriver_error", "other_error"} :
         pc' = CASE outcome = "started" ->
                      IF IsCancelled THEN BotReturn(pc, "none", FALSE)
                      ELSE [pc EXCEPT !.at = "navigate", !.offline = FALSE,
                                      !.driver = TRUE]
                 [] outcome = "webdriver_error" ->
                      BotReturn([pc EXCEPT !.neterror = TRUE], "none", TRUE)
                 [] OTHER ->
                      BotReturn([pc EXCEPT !.raised = TRUE], "none", FALSE)
    /\ UNCHANGED <<stop_event, arch, call, pre, batch, ops, log, disk>>

\* self._driver.get(self.url) is sent, unless request_cancel has cleared the
\* driver.
BotNavigate ==
    /\ pc.at = "navigate"
    /\ pc' = [pc EXCEPT !.at = IF pc.driver THEN "navigating" ELSE "poll"]
    /\ UNCHANGED <<stop_event, arch, call, pre, batch, ops, log, disk>>

\* The answers of driver.get: the page is loaded or the load times out
\* (TimeoutException, window.stop()); a source that does not answer gives
\* WebDriverException (about:neterror); a driver quit under the command
\* gives WebDriverException (the session is gone) or a connection error of
\* the HTTP client, which is no WebDriverException.
GetAnswers(p) ==
    IF p.killed THEN {"webdriver_error", "other_error"}
    ELSE IF p.reachable THEN {"loaded", "timeout"}
    ELSE {"webdriver_error", "timeout"}

\* driver.get returns or raises; then the cookie banner and the cancel check
\* behind it.
BotNavigated ==
    /\ pc.at = "navigating"
    /\ \E answer \in GetAnswers(pc) :
         pc' = CASE answer = "webdriver_error" ->
                      BotReturn([pc EXCEPT !.neterror = ~pc.killed], "none", TRUE)
                 [] answer = "other_error" ->
                      BotReturn([pc EXCEPT !.raised = TRUE], "none", FALSE)
                 [] OTHER ->
                      IF IsCancelled THEN BotReturn(pc, "none", pc.offline)
                      ELSE [pc EXCEPT !.at = "poll"]
    /\ UNCHANGED <<stop_event, arch, call, pre, batch, ops, log, disk>>

\* The polling loop and the parse: a cancelled run, a run without DOM, a
\* page without a qualifying result return None; a duration text that does
\* not parse raises into the except branch of start(); otherwise the
\* cheapest candidate is returned.
BotScrape ==
    /\ pc.at = "poll"
    /\ \E page \in {"empty", "no_candidate", "bad_duration", "candidates"} :
         LET p == [pc EXCEPT !.page = page]
         IN  pc' = IF IsCancelled \/ ~pc.driver \/ page \in {"empty", "no_candidate"}
                   THEN BotReturn(p, "none", p.offline)
                   ELSE IF page = "bad_duration"
                   THEN BotReturn([p EXCEPT !.raised = TRUE], "none", FALSE)
                   ELSE BotReturn(p, "record", p.offline)
    /\ UNCHANGED <<stop_event, arch, call, pre, batch, ops, log, disk>>

\* request_cancel() from the GUI thread: the event is set and the live
\* driver is quit; a command in flight loses its driver.
BotCancel ==
    /\ pc.at \in {"launch", "navigate", "navigating", "poll"}
    /\ ~stop_event
    /\ stop_event' = TRUE
    /\ pc' = [pc EXCEPT !.driver = FALSE,
                        !.killed = pc.at = "navigating" /\ pc.driver]
    /\ UNCHANGED <<arch, call, pre, batch, ops, log, disk>>

\* _on_start clears the stop event before the next run.
BotRearm ==
    /\ pc.at = "bot_returned"
    /\ stop_event
    /\ stop_event' = FALSE
    /\ UNCHANGED <<arch, call, pre, batch, ops, log, disk, pc>>

NextBot ==
    \/ BotStart \/ BotLaunch \/ BotNavigate \/ BotNavigated \/ BotScrape
    \/ BotCancel \/ BotRearm

SpecBot == InitBot /\ [][NextBot]_vars

(***************************************************************************)
(* The record store growing between the replays                            *)
(* (_archive_bootstrap_from_records is incremental).  Lines are appended   *)
(* to flight_records.jsonl in the format the replay reads; done collects   *)
(* the rows replayed by all the calls so far.                              *)
(***************************************************************************)
\* The lines written to the store: two prices of one arm in the same hour,
\* a later hour of another arm, and an earlier day.
WrittenLines ==
    {RecordLine("datetime", 1, 5, "LON", "PAR", 1, 2, "num", Rat(100, 1)),
     RecordLine("datetime", 1, 5, "LON", "PAR", 1, 2, "num", Rat(80, 1)),
     RecordLine("datetime", 1, 6, "AMS", "PAR", 2, 4, "num", Rat(100, 1)),
     RecordLine("date", 0, 0, "AMS", "PAR", 2, 4, "num", Rat(80, 1))}

InitLog ==
    /\ stop_event = FALSE
    /\ arch = WithWatermark(EmptyArchive(Rat(1, 2)), NoTs)
    /\ log = <<>>
    /\ call = [op |-> "load", changed |-> FALSE, prev_op |-> "none",
               prev_day |-> -1, prev_changed |-> FALSE, done |-> {}]
    /\ pre = arch
    /\ batch = NoBatch
    /\ ops = 0
    /\ disk = NoDisk
    /\ pc = Idle

\* A record is appended to the store.
StoreAppend ==
    \E line \in WrittenLines :
        /\ Len(log) < MaxLog
        /\ log' = Append(log, line)
        /\ call' = [call EXCEPT !.op = "append", !.changed = FALSE,
                                !.prev_op = call.op, !.prev_changed = call.changed]
        /\ UNCHANGED <<stop_event, arch, pre, batch, ops, disk, pc>>

\* A call of _archive_bootstrap_from_records(arch) on the store as it is.
StoreReplay ==
    LET new == ArchiveBootstrap(arch, log)
        rows == BootstrapRows(arch, log)
    IN  /\ ops < MaxOps
        /\ Representable(new)
        /\ arch' = new
        /\ pre' = arch
        /\ call' = [op |-> "replay", raised |-> BootstrapRaises(log),
                    replayed |-> rows, changed |-> new # arch,
                    prev_op |-> call.op, prev_day |-> -1,
                    prev_changed |-> call.changed,
                    done |-> call.done \cup Range(rows)]
        /\ ops' = ops + 1
        /\ UNCHANGED <<stop_event, batch, log, disk, pc>>

NextLog == StoreAppend \/ StoreReplay

SpecLog == InitLog /\ [][NextLog]_vars

(***************************************************************************)
(* Decay passes one after the other.  The calls are those of Spec; a decay *)
(* call also keeps the archive as it was before the call that preceded it. *)
(***************************************************************************)
\* An archive file whose arm record has no last_date; _archive_load returns
\* it as it is.
UndatedArchive ==
    [gamma |-> Rat(98, 100),
     stats |-> [k \in {ArchiveKey("LON", "PAR", 1, 2)} |->
                  [mu |-> Rat(100, 1), var |-> One, n |-> One,
                   last_date |-> Undated]]]

InitDays ==
    /\ stop_event = FALSE
    /\ arch \in LoadedArchives \cup {UndatedArchive}
    /\ call = NoCall
    /\ pre = arch
    /\ batch = NoBatch
    /\ ops = 0
    /\ log = <<>>
    /\ disk = NoDisk
    /\ pc = Idle

\* A call of _archive_decay(arch, today).
DecayOnDay ==
    \E today \in Days :
        LET new == ArchiveDecay(arch, today)
        IN  /\ pc = Idle
            /\ ops < MaxOps
            /\ Representable(new)
            /\ arch' = new
            /\ pre' = arch
            /\ call' = [op |-> "decay", day |-> today, changed |-> new # arch,
                        prev_op |-> call.op, prev_day |-> PrevDay,
                        prev_changed |-> call.changed, first |-> pre]
            /\ batch' = NoBatch
            /\ ops' = ops + 1
            /\ UNCHANGED <<stop_event, log, disk, pc>>

NextDays == DecayOnDay \/ AddObservation

SpecDays == InitDays /\ [][NextDays]_vars

(***************************************************************************)
(* The window and its monitor thread (gui.py).  The handlers of the window *)
(* run one at a time on the main thread; a monitor thread runs beside      *)
(* them.  pc holds the fields of the window and the position of every      *)
(* thread that was started; stop_event is self._stop_event.                *)
(***************************************************************************)
MaxThreads == 2
MaxPolls == 2
MaxWait == 2

\* A thread that _start_monitoring has just started: _monitor_loop is at
\* the test of its while loop.
NewThread == [at |-> "loop", left |-> 0]

\* The window at the end of the widget construction of __init__.
NewWindow(fields_complete) ==
    [at |-> "gui", threads |-> <<>>, monitor_thread |-> 0, current_bot |-> 0,
     start_button |-> "normal", cancel_button |-> "disabled",
     status |-> "idle", allow_auto_start |-> TRUE,
     fields_complete |-> fields_complete, polls |-> 0]

\* Thread.is_alive() of thread t.
ThreadAlive(p, t) == p.threads[t].at # "dead"

LiveThreads(p) == {t \in 1..Len(p.threads) : ThreadAlive(p, t)}

\* The mutant of the liveness test that never sees a live thread.
IsAlive_Never(p) == FALSE

\* self._monitor_thread and self._monitor_thread.is_alive()
IsAlive(p) == p.monitor_thread # 0 /\ ThreadAlive(p, p.monitor_thread)

\* What the validation of _start_monitoring can do with the fields: accept
\* them, reject them with a message box, or raise at float().
Validations == {"ok", "rejected", "raised"}

\* _start_monitoring: a rejected input restores the buttons and starts
\* nothing; accepted input starts a new thread and keeps it in
\* self._monitor_thread.
StartMonitoring(p, valid) ==
    IF valid = "rejected"
    THEN [p EXCEPT !.status = "idle", !.start_button = "normal",
                   !.cancel_button = "disabled"]
    ELSE IF valid = "raised" THEN p
    ELSE [p EXCEPT !.threads = Append(p.threads, NewThread),
                   !.monitor_thread = Len(p.threads) + 1]

\* Whether _on_start goes past its two early returns.
Starts(p) == p.fields_complete /\ ~IsAlive(p)

\* _on_start on window p.
OnStartOf(p, valid) ==
    IF ~Starts(p) THEN p
    ELSE StartMonitoring([p EXCEPT !.status = "starting",
                                   !.start_button = "disabled",
                                   !.cancel_button = "normal"], valid)

\* _wait_for_cancel: a live thread schedules the next poll, a dead one
\* has the window restored.
WaitForCancel(p) ==
    IF IsAlive(p) THEN [p EXCEPT !.polls = p.polls + 1]
    ELSE [p EXCEPT !.monitor_thread = 0, !.current_bot = 0,
                   !.status = "idle", !.start_button = "normal",
                   !.cancel_button = "disabled"]

\* The window when mainloop starts: __init__ calls _on_start when the saved
\* fields are complete.
InitGui ==
    /\ arch = EmptyArchive(DefaultGamma)
    /\ pre = arch
    /\ batch = NoBatch
    /\ ops = 0
    /\ log = <<>>
    /\ disk = NoDisk
    /\ stop_event = FALSE
    /\ call = [op |-> "init", alive |-> FALSE]
    /\ \E fields_complete \in BOOLEAN, valid \in Validations :
         pc = OnStartOf(NewWindow(fields_complete), valid)

\* _on_start.
OnStart ==
    /\ Len(pc.threads) < MaxThreads \/ ~Starts(pc)
    /\ \E valid \in Validations :
         /\ pc' = OnStartOf(pc, valid)
         /\ stop_event' = IF Starts(pc) THEN FALSE ELSE stop_event
         /\ call' = [op |-> "start", alive |-> LiveThreads(pc) # {}]
    /\ UNCHANGED <<arch, pre, batch, ops, log, disk>>

\* _on_cancel.
OnCancel ==
    /\ pc.polls < MaxPolls
    /\ IF ~IsAlive(pc)
       THEN UNCHANGED <<pc, stop_event>>
       ELSE /\ stop_event' = TRUE
            /\ pc' = WaitForCancel([pc EXCEPT !.allow_auto_start = FALSE,
                                              !.status = "cancelling",
                                              !.cancel_button = "disabled"])
    /\ call' = [op |-> "cancel", alive |-> LiveThreads(pc) # {}]
    /\ UNCHANGED <<arch, pre, batch, ops, log, disk>>

\* A key release in one of the fields, and _on_fields_changed.
OnFieldsChanged ==
    /\ pc.polls < MaxPolls
    /\ \E fields_complete \in BOOLEAN :
         LET p == [pc EXCEPT !.fields_complete = fields_complete]
         IN  IF ~fields_complete /\ IsAlive(p)
             THEN /\ stop_event' = TRUE
                  /\ pc' = WaitForCancel([p EXCEPT
                                 !.status = "cancelling",
                                 !.cancel_button = "disabled"])
             ELSE /\ pc' = p
                  /\ UNCHANGED stop_event
    /\ call' = [op |-> "fields", alive |-> LiveThreads(pc) # {}]
    /\ UNCHANGED <<arch, pre, batch, ops, log, disk>>

\* The callback of self.after(100, self._wait_for_cancel).
Poll ==
    /\ pc.polls > 0
    /\ pc' = WaitForCancel([pc EXCEPT !.polls = pc.polls - 1])
    /\ call' = [op |-> "poll", alive |-> LiveThreads(pc) # {}]
    /\ UNCHANGED <<stop_event, arch, pre, batch, ops, log, disk>>

\* The step of thread t that moves it to position at.
Moved(t, at) ==
    /\ pc' = [pc EXCEPT !.threads[t].at = at]
    /\ call' = [op |-> "thread", alive |-> TRUE]
    /\ UNCHANGED <<stop_event, arch, pre, batch, ops, log, disk>>

\* while not self._stop_event.is_set()
ThreadLoop ==
    \E t \in 1..Len(pc.threads) :
        /\ pc.threads[t].at = "loop"
        /\ IF stop_event THEN Moved(t, "ending")
           ELSE /\ pc' = [pc EXCEPT !.threads[t].at = "sweep",
                                    !.status = "checking"]
                /\ call' = [op |-> "thread", alive |-> TRUE]
                /\ UNCHANGED <<stop_event, arch, pre, batch, ops, log, disk>>

\* The top of the for loop over the proposals: a set stop event leaves the
\* sweep, the end of the batch does too, and otherwise the next probe
\* starts with its bot in self._current_bot.
ThreadSweep ==
    \E t \in 1..Len(pc.threads) :
        /\ pc.threads[t].at = "sweep"
        /\ call' = [op |-> "thread", alive |-> TRUE]
        /\ UNCHANGED <<stop_event, arch, pre, batch, ops, log, disk>>
        /\ IF stop_event
           THEN pc' = [pc EXCEPT !.threads[t].at = "loop",
                                 !.status = "continuing"]
           ELSE \/ pc' = [pc EXCEPT !.threads[t].at = "loop",
                                    !.status = "continuing"]
                \/ pc' = [pc EXCEPT !.threads[t].at = "probe",
                                    !.current_bot = t,
                                    !.status = "probing"]

\* What bot.start() can come back with.
ProbeOutcomes == {"result", "none", "offline"}

\* bot.start() returns.  A set stop event leaves the sweep, an offline
\* probe goes to the wait, a probe without result is ingested as a failure
\* and the sweep goes on, and a result reaches the call of save_record,
\* whose TypeError ends the thread through the finally clause.
ThreadProbe ==
    \E t \in 1..Len(pc.threads), outcome \in ProbeOutcomes :
        /\ pc.threads[t].at = "probe"
        /\ call' = [op |-> "thread", alive |-> TRUE]
        /\ UNCHANGED <<stop_event, arch, pre, batch, ops, log, disk>>
        /\ pc' = IF stop_event
                 THEN [pc EXCEPT !.threads[t].at = "loop",
                                 !.current_bot = 0,
                                 !.status = "continuing"]
                 ELSE IF outcome = "offline"
                 THEN [pc EXCEPT !.threads[t] =
                                     [at |-> "wait", left |-> MaxWait],
                                 !.current_bot = 0,
                                 !.status = "offline"]
                 ELSE IF outcome = "none"
                 THEN [pc EXCEPT !.threads[t].at = "sweep",
                                 !.current_bot = 0]
                 ELSE [pc EXCEPT !.threads[t].at = "dead",
                                 !.current_bot = 0]

\* One turn of the offline wait: the stop event is read before every
\* second of sleep, and the sweep is left after the wait.
ThreadWait ==
    \E t \in 1..Len(pc.threads) :
        /\ pc.threads[t].at = "wait"
        /\ call' = [op |-> "thread", alive |-> TRUE]
        /\ UNCHANGED <<stop_event, arch, pre, batch, ops, log, disk>>
        /\ pc' = IF ~stop_event /\ pc.threads[t].left > 0
                 THEN [pc EXCEPT !.threads[t].left = @ - 1]
                 ELSE [pc EXCEPT !.threads[t] = [at |-> "loop", left |-> 0],
                                 !.status = "continuing"]

\* The end of _monitor_loop: the finally clause, the status, and the
\* message box the thread opens.
ThreadEnd ==
    \E t \in 1..Len(pc.threads) :
        /\ pc.threads[t].at = "ending"
        /\ pc' = [pc EXCEPT !.threads[t].at = "dialog",
                            !.current_bot = 0, !.status = "idle"]
        /\ call' = [op |-> "thread", alive |-> TRUE]
        /\ UNCHANGED <<stop_event, arch, pre, batch, ops, log, disk>>

\* The user closes the message box "Monitoring loop ended."; showinfo
\* returns and the thread ends.
DismissDialog ==
    \E t \in 1..Len(pc.threads) :
        /\ pc.threads[t].at = "dialog"
        /\ Moved(t, "dead")

ThreadStep ==
    ThreadLoop \/ ThreadSweep \/ ThreadProbe \/ ThreadWait \/ ThreadEnd

\* The handlers entered whatever the buttons show, as __init__ enters
\* _on_start.
NextGui ==
    \/ OnStart \/ OnCancel \/ OnFieldsChanged \/ Poll
    \/ ThreadLoop \/ ThreadSweep \/ ThreadProbe \/ ThreadWait \/ ThreadEnd
    \/ DismissDialog

SpecGui == InitGui /\ [][NextGui]_vars

\* A click on the Start button: a disabled button runs no command.
StartClick == pc.start_button = "normal" /\ OnStart

\* A click on the Cancel button.
CancelClick == pc.cancel_button = "normal" /\ OnCancel

NextTk ==
    \/ StartClick \/ CancelClick \/ OnFieldsChanged \/ Poll
    \/ ThreadLoop \/ ThreadSweep \/ ThreadProbe \/ ThreadWait \/ ThreadEnd
    \/ DismissDialog

\* The window under its buttons.  The thread is scheduled, its probe
\* returns, and the main loop fires the callbacks of after(); nothing makes
\* the user close a message box.
SpecTk ==
    /\ InitGui
    /\ [][NextTk]_vars
    /\ WF_vars(ThreadStep)
    /\ WF_vars(Poll)

(***************************************************************************)
(* Claims about propose_batch, checked under SpecBatch.                    *)
(***************************************************************************)
Proposed == call.op = "propose"

NoDuplicates(s) == \A i, j \in 1..Len(s) : s[i] = s[j] => i = j

\* The arms of the returned batch that the random floor drew.
RandomInBatch == Cardinality({i \in 1..Len(batch.out) : batch.out[i] \in Range(batch.rnd)})

\* ceil(random_floor_fraction * q)
CeilFloor == (call.q * call.frac[1] + call.frac[2] - 1) \div call.frac[2]

\* floor(random_floor_fraction * q)
FloorFloor == (call.q * call.frac[1]) \div call.frac[2]

CallUniverse ==
    {<<d, b, dd, dd + dur>> :
        d \in Range(call.deps_pool), b \in Range(call.dests_pool),
        dd \in Range(call.dates_pool), dur \in Range(call.durations)}

\* C1: the batch propose_batch returns holds no arm twice and at most q arms,
\* for every archive, all pools and every q >= 0.
C1_UniqueAndAtMostQ ==
    Proposed => NoDuplicates(batch.out) /\ Len(batch.out) <= call.q

Source(x) ==
    IF x \in Range(batch.ts) THEN 1 ELSE IF x \in Range(batch.sur) THEN 2 ELSE 3

\* C3: in the returned batch every Thompson pick precedes every surrogate
\* pick and every surrogate pick precedes every random pick, and an arm is
\* dropped by the cap only if it has the lowest priority: no arm of the batch
\* has a lower priority than a dropped one.
C3_SelectionPriority ==
    Proposed =>
        LET picked == batch.ts \o batch.sur \o batch.rnd
            dropped == Range(picked) \ Range(batch.out)
        IN  /\ Range(batch.out) \subseteq Range(picked)
            /\ \A i, j \in 1..Len(batch.out) :
                  i < j => Source(batch.out[i]) <= Source(batch.out[j])
            /\ \A x \in dropped, i \in 1..Len(batch.out) :
                  Source(batch.out[i]) <= Source(x)
            /\ (dropped # {} => Len(batch.out) >= call.q)
            /\ \A x \in dropped :
                  Source(x) = 1 => (Range(batch.sur) \cup Range(batch.rnd)) \subseteq dropped
            /\ \A x \in dropped :
                  Source(x) = 2 => Range(batch.rnd) \subseteq dropped

\* A batch with arms of all three sources from which the cap drops a random arm.
C3_Witness ==
    /\ Proposed
    /\ \E i, j, k \in 1..Len(batch.out) :
          Source(batch.out[i]) = 1 /\ Source(batch.out[j]) = 2 /\ Source(batch.out[k]) = 3
    /\ Range(batch.rnd) \ Range(batch.out) # {}

\* C4: with an empty archive and no trip length the batch holds random-floor
\* arms only (none if the pools are empty too); no arm of it comes from the
\* surrogate.
C4_EmptyDurationsRandomOnly ==
    (Proposed /\ DOMAIN pre.stats = {} /\ call.durations = <<>>)
    => /\ batch.sur = <<>>
       /\ Range(batch.out) \subseteq Range(batch.rnd)

\* C5: when the origin pool, the destination pool, the date pool or the list
\* of trip lengths is empty, the surrogate and the random floor contribute no
\* arm and the batch is what the Thompson selector composed.
C5_EmptyPoolNoContribution ==
    (/\ Proposed
     /\ \/ call.deps_pool = <<>>
        \/ call.dests_pool = <<>>
        \/ call.dates_pool = <<>>
        \/ call.durations = <<>>)
    => /\ batch.sur = <<>>
       /\ batch.rnd = <<>>
       /\ Range(batch.out) \subseteq Range(batch.ts)

\* C23: the Thompson slice holds archived arms only and none twice, its
\* length is the smaller of the number of archived arms and floor(0.6 * q),
\* its arms are in ascending order of their posterior samples, and no
\* archived arm outside the slice has a lower sample than one inside.
C23_ThompsonSlice ==
    Proposed =>
        /\ Range(batch.ts) \subseteq DOMAIN arch.stats
        /\ NoDuplicates(batch.ts)
        /\ Len(batch.ts) = Min(Cardinality(DOMAIN arch.stats), (6 * call.q) \div 10)
        /\ \A i, j \in 1..Len(batch.ts) :
              i < j => batch.sample[batch.ts[i]] < batch.sample[batch.ts[j]]
        /\ \A k \in DOMAIN arch.stats \ Range(batch.ts) :
              \A i \in 1..Len(batch.ts) :
                 batch.sample[batch.ts[i]] < batch.sample[k]

\* Two archived arms and one Thompson slot: the arm with the lower sample is
\* taken and the other one is left out.
C23_Witness ==
    /\ Proposed
    /\ Cardinality(DOMAIN arch.stats) = 2
    /\ call.q = 3
    /\ batch.ts = <<ArchiveKey("LON", "PAR", 1, 2)>>
    /\ batch.sample[ArchiveKey("AMS", "PAR", 2, 4)] = 2

\* C24: no arm of the surrogate slice has a key in the archive, so the
\* Thompson slice and the surrogate slice of a batch share no arm.
C24_SurrogateSliceUnseen ==
    Proposed =>
        /\ \A i \in 1..Len(batch.sur) : batch.sur[i] \notin DOMAIN arch.stats
        /\ Range(batch.ts) \cap Range(batch.sur) = {}

\* An archived arm is among the combinations of the beam (LON, PAR, day 1,
\* one day long) and is in the Thompson slice; the surrogate slice holds
\* another arm.
C24_Witness ==
    /\ Proposed
    /\ ArchiveKey("LON", "PAR", 1, 2) \in Range(batch.ts)
    /\ call.deps_pool = <<"LON", "AMS">> /\ call.dests_pool = <<"PAR">>
    /\ call.dates_pool = <<1, 2>> /\ call.durations = <<2, 1>>
    /\ call.beam_k = 20
    /\ Len(batch.sur) >= 1

\* The representative trip lengths: the shortest and the median of the
\* allowed lengths.
RepresentativeLengths ==
    IF call.durations = <<>> THEN {}
    ELSE LET sorted == SortedSet(Range(call.durations))
         IN  {sorted[1], sorted[Len(sorted) \div 2 + 1]}

\* The arms of the cross product of the top-k origins, destinations and
\* dates and the representative trip lengths that have no key in the archive.
UnseenCandidates ==
    {c \in {ArchiveKey(d, b, dd, dd + dur) :
              d \in Range(TopK(batch.fit.alpha, call.beam_k, call.deps_pool)),
              b \in Range(TopK(batch.fit.beta, call.beam_k, call.dests_pool)),
              dd \in Range(TopK(batch.fit.gamma, call.beam_k, call.dates_pool)),
              dur \in RepresentativeLengths} :
        c \notin DOMAIN arch.stats}

\* The composite score of an arm: the sum of its three factor scores.
CompositeScore(c) ==
    Get(batch.fit.alpha, c[1]) + Get(batch.fit.beta, c[2]) + Get(batch.fit.gamma, c[3])

\* C25: the surrogate slice holds min(floor(0.3 * q), number of unseen
\* candidates) distinct unseen candidates of the cross product of the top-k
\* origins, destinations, dates and the representative trip lengths, and no
\* unseen candidate outside the slice has a lower composite score than one
\* inside.
C25_SurrogateSliceLowestScores ==
    Proposed =>
        /\ NoDuplicates(batch.sur)
        /\ Range(batch.sur) \subseteq UnseenCandidates
        /\ Len(batch.sur) = Min((3 * call.q) \div 10, Cardinality(UnseenCandidates))
        /\ \A c \in UnseenCandidates \ Range(batch.sur) :
              \A i \in 1..Len(batch.sur) :
                 CompositeScore(batch.sur[i]) <= CompositeScore(c)

\* The top-k list top of a pool for the fitted map dct is as C26 says.
IsTopK(top, dct, k, pool) ==
    IF DOMAIN dct = {}
    THEN top = [i \in 1..Min(k, Len(pool)) |-> pool[i]]
    ELSE /\ Len(top) = Min(k, Len(pool))
         /\ Range(top) \subseteq Range(pool)
         /\ NoDuplicates(top)
         /\ \A i, j \in 1..Len(top) :
               i < j => Get(dct, top[i]) <= Get(dct, top[j])
         /\ \A x \in Range(pool) \ Range(top) :
               \A i \in 1..Len(top) : Get(dct, top[i]) <= Get(dct, x)

\* C26: for each factor with a fitted map the top-k are the min(k, |pool|)
\* pool members of lowest score, lowest first, a member without coefficient
\* counting 0; without fitted map they are the first min(k, |pool|) members
\* of the pool in pool order.
C26_FactorRanking ==
    Proposed =>
        /\ IsTopK(batch.top.dep, batch.fit.alpha, call.beam_k, call.deps_pool)
        /\ IsTopK(batch.top.dest, batch.fit.beta, call.beam_k, call.dests_pool)
        /\ IsTopK(batch.top.dates, batch.fit.gamma, call.beam_k, call.dates_pool)

\* Top-1 of the origins LON, AMS when only LON has a coefficient, which is
\* positive: AMS, scored 0, is taken.
C26_Witness ==
    /\ Proposed
    /\ call.beam_k = 1 /\ call.deps_pool = <<"LON", "AMS">>
    /\ DOMAIN batch.fit.alpha = {"LON"} /\ batch.fit.alpha["LON"] = 1
    /\ batch.top.dep = <<"AMS">>

\* The arm can be composed from the pools and the trip lengths of the call.
EligibleArm(arm, c) ==
    /\ arm[1] \in Range(c.deps_pool)
    /\ arm[2] \in Range(c.dests_pool)
    /\ arm[3] \in Range(c.dates_pool)
    /\ \E i \in 1..Len(c.durations) : arm[4] = ReturnDate(arm[3], c.durations[i])

\* C33: every arm propose_batch returns is eligible for the sweep: origin,
\* destination and outbound date are in the pools of the call and the return
\* date is the outbound date plus an allowed trip length, for the arms of all
\* three sources, Thompson picks included.
C33_ProposedArmsEligible ==
    call.op = "propose" =>
        \A i \in 1..Len(batch.out) : EligibleArm(batch.out[i], call)

\* A Thompson pick that cannot be composed from non-empty pools and trip
\* lengths is in the batch.
C33_IneligibleThompsonPick ==
    /\ call.op = "propose"
    /\ call.deps_pool # <<>> /\ call.dests_pool # <<>> /\ call.dates_pool # <<>>
    /\ call.durations # <<>>
    /\ \E i \in 1..Len(batch.ts) :
          /\ ~EligibleArm(batch.ts[i], call)
          /\ \E j \in 1..Len(batch.out) : batch.out[j] = batch.ts[i]

\* The arms of the surrogate slice and of the random floor are eligible when
\* there are trip lengths.
C33_ComposedArmsEligible ==
    (call.op = "propose" /\ call.durations # <<>>) =>
        \A i \in 1..Len(batch.sur \o batch.rnd) :
            EligibleArm((batch.sur \o batch.rnd)[i], call)

(***************************************************************************)
(* Claims about the archive, checked under Spec.                           *)
(***************************************************************************)
\* gamma^d for d > 0 elapsed days, 1 for a same-day (or earlier-day) update.
DecayFactor(g, d) == IF d > 0 THEN RatPow(g, d) ELSE One

\* The record s with mean, variance and weight multiplied by f, on day `day`.
Scaled(s, f, day) ==
    [mu |-> RatMul(s.mu, f), var |-> RatMul(s.var, f), n |-> RatMul(s.n, f),
     last_date |-> day]

ScenarioArm == <<"LON", "PAR", 1, 2>>

\* C6: add_observation on an arm of the archive first decays the archive to
\* `day` and then sets mean' = gamma*mean + (1-gamma)*price, variance' =
\* max(floor, gamma*variance + (1-gamma)*(price-mean')^2), weight' =
\* gamma*weight + 1 and last_update_day = day; mean 100, variance 1, weight 10,
\* gamma 0.98 and a same-day price 80 give mean 99.6 and weight 10.8.
C6_AddObservationExistingArm ==
    (call.op = "add" /\ call.key \in DOMAIN pre.stats) =>
        LET g == pre.gamma
            old == pre.stats[call.key]
            f == DecayFactor(g, call.day - old.last_date)
            mean == RatMul(old.mu, f)
            variance == RatMul(old.var, f)
            weight == RatMul(old.n, f)
            new_mean == RatAdd(RatMul(g, mean), RatMul(RatSub(One, g), call.y))
            dev == RatSub(call.y, new_mean)
            new_var == RatAdd(RatMul(g, variance),
                              RatMul(RatSub(One, g), RatMul(dev, dev)))
            new == arch.stats[call.key]
        IN  /\ DOMAIN arch.stats = DOMAIN pre.stats
            /\ new.mu = new_mean
            /\ new.var = (IF RatLess(new_var, VarFloor) THEN VarFloor ELSE new_var)
            /\ new.n = RatAdd(RatMul(g, weight), One)
            /\ new.last_date = call.day
            /\ \A k \in DOMAIN pre.stats \ {call.key} :
                  LET d == call.day - pre.stats[k].last_date
                  IN  arch.stats[k] =
                        (IF d > 0 THEN Scaled(pre.stats[k], RatPow(g, d), call.day)
                         ELSE pre.stats[k])
            /\ (pre = ScenarioIngest /\ call.y = Rat(80, 1) /\ call.day = 0
                  => new.mu = Rat(996, 10) /\ new.n = Rat(108, 10))

\* The ingestion scenario: price 80 on the same day, mean 99.6, weight 10.8.
C6_Witness ==
    /\ call.op = "add" /\ call.key = ScenarioArm
    /\ pre = ScenarioIngest /\ call.y = Rat(80, 1) /\ call.day = 0
    /\ arch.stats[ScenarioArm].mu = Rat(996, 10)
    /\ arch.stats[ScenarioArm].n = Rat(108, 10)

\* C7: after add_observation for an arm that is not in the archive, the
\* arm's record is mean = price, variance = 1, weight = 1, last_update_day =
\* day.
C7_NewArmRecord ==
    (call.op = "add" /\ call.key \notin DOMAIN pre.stats) =>
        arch.stats[call.key] =
            [mu |-> call.y, var |-> One, n |-> One, last_date |-> call.day]

\* C8: decay(archive, today) multiplies mean, variance and weight of every arm
\* last updated d > 0 days before today by gamma^d and sets its
\* last_update_day to today; arms last updated today are unchanged; mean 200,
\* weight 5, gamma 0.9 and d = 2 give mean 162 and weight 4.05.
C8_DecayScalesByGammaPowDays ==
    call.op = "decay" =>
        /\ DOMAIN arch.stats = DOMAIN pre.stats
        /\ arch.gamma = pre.gamma
        /\ \A k \in DOMAIN pre.stats :
              LET d == call.day - pre.stats[k].last_date
              IN  /\ d > 0 => arch.stats[k] =
                                Scaled(pre.stats[k], RatPow(pre.gamma, d), call.day)
                  /\ d = 0 => arch.stats[k] = pre.stats[k]
        /\ (pre = ScenarioDecay /\ call.day = 2
              => /\ arch.stats[ScenarioArm].mu = Rat(162, 1)
                 /\ arch.stats[ScenarioArm].n = Rat(405, 100))

\* The decay scenario: two elapsed days, mean 162, weight 4.05.
C8_Witness ==
    /\ call.op = "decay" /\ call.day = 2 /\ pre = ScenarioDecay
    /\ arch.stats[ScenarioArm].mu = Rat(162, 1)
    /\ arch.stats[ScenarioArm].n = Rat(405, 100)
    /\ arch.stats[ScenarioArm].last_date = 2

\* C9: a second decay(archive, today) right after a first one for the same
\* day changes nothing of the archive.
C9_DecayIdempotentPerDay ==
    (call.op = "decay" /\ call.prev_op = "decay" /\ call.prev_day = call.day)
    => arch = pre

\* A second decay for the same day, after a first one that did change arms.
C9_Witness ==
    /\ call.op = "decay" /\ call.prev_op = "decay" /\ call.prev_day = call.day
    /\ call.prev_changed
    /\ DOMAIN arch.stats # {}

\* C10 (as claimed): in every reachable state every arm's variance is strictly
\* positive and not below the numerical floor.
C10_VarianceNeverBelowFloor ==
    \A k \in DOMAIN arch.stats :
        /\ RatLess(Zero, arch.stats[k].var)
        /\ ~RatLess(arch.stats[k].var, VarFloor)

\* C10 (amended): in every reachable state every arm's variance is strictly
\* positive, and right after add_observation the observed arm's variance is
\* not below the floor; a decay pass multiplies the variance by gamma^d
\* without the floor.
C10_VariancePositiveFlooredOnIngest ==
    /\ \A k \in DOMAIN arch.stats : RatLess(Zero, arch.stats[k].var)
    /\ call.op = "add" => ~RatLess(arch.stats[call.key].var, VarFloor)
    /\ call.op = "decay" =>
          \A k \in DOMAIN pre.stats :
              call.day > pre.stats[k].last_date =>
                  RatLess(arch.stats[k].var, pre.stats[k].var)

\* An observation whose variance update fell below the floor and was raised
\* to it.
C10_Witness ==
    /\ call.op = "add" /\ call.key \in DOMAIN pre.stats
    /\ arch.stats[call.key].var = VarFloor
    /\ RatLess(RatMul(pre.gamma, pre.stats[call.key].var), VarFloor)
    /\ call.y = pre.stats[call.key].mu

\* a <= b for representable a, b.
RatLeq(a, b) == ~IsHuge(a) /\ ~IsHuge(b) /\ ~RatLess(b, a)

\* |a - b|
Distance(a, b) ==
    LET d == RatSub(a, b) IN IF IsHuge(d) THEN HUGE ELSE <<Abs(d[1]), d[2]>>

\* x lies between a and b, the ends included.
Between(x, a, b) ==
    \/ RatLeq(a, x) /\ RatLeq(x, b)
    \/ RatLeq(b, x) /\ RatLeq(x, a)

\* The weight, and the mean, of the observed arm as the decay pass inside
\* add_observation leaves them: scaled by gamma^d for d > 0 elapsed days.
DecayedWeight ==
    RatMul(pre.stats[call.key].n,
           DecayFactor(pre.gamma, call.day - pre.stats[call.key].last_date))

DecayedMean ==
    RatMul(pre.stats[call.key].mu,
           DecayFactor(pre.gamma, call.day - pre.stats[call.key].last_date))

\* 1/(1-g), the weight an arm observed forever without a gap tends to.
WeightLimit(g) == Rat(g[2], g[2] - g[1])

\* C11 (as claimed): every arm's weight is non-negative, and an ingestion for
\* an arm leaves the arm's weight strictly greater than it was immediately
\* before the ingestion call.
C11_WeightGrowsOnIngest ==
    /\ \A k \in DOMAIN arch.stats : RatLeq(Zero, arch.stats[k].n)
    /\ (call.op = "add" /\ call.key \in DOMAIN pre.stats)
          => RatLess(pre.stats[call.key].n, arch.stats[call.key].n)

\* C11 (amended): every arm's weight is non-negative and below 1/(1-gamma);
\* an ingestion sets the arm's weight to gamma times its decayed weight plus
\* 1, which is at least 1 and strictly greater than the decayed weight, and
\* strictly greater than the weight before the call when no day has elapsed
\* since the arm's last update.
C11_WeightGrowsOverDecayedWeight ==
    /\ \A k \in DOMAIN arch.stats :
          /\ RatLeq(Zero, arch.stats[k].n)
          /\ RatLess(arch.stats[k].n, WeightLimit(arch.gamma))
    /\ (call.op = "add" /\ call.key \in DOMAIN pre.stats)
          => /\ arch.stats[call.key].n = RatAdd(RatMul(pre.gamma, DecayedWeight), One)
             /\ RatLeq(One, arch.stats[call.key].n)
             /\ RatLess(DecayedWeight, arch.stats[call.key].n)
             /\ (call.day <= pre.stats[call.key].last_date
                   => RatLess(pre.stats[call.key].n, arch.stats[call.key].n))

\* An ingestion after elapsed days that leaves the arm's weight above its
\* decayed weight and below its weight before the call.
C11_Witness ==
    /\ call.op = "add" /\ call.key \in DOMAIN pre.stats
    /\ call.day > pre.stats[call.key].last_date
    /\ RatLess(DecayedWeight, arch.stats[call.key].n)
    /\ RatLess(arch.stats[call.key].n, pre.stats[call.key].n)

\* C12 (as claimed): in a run of add_observation calls on one arm with one
\* price p on non-decreasing days, the arm's mean after every call lies
\* between p and the mean the arm had when the run began, and its distance
\* to p is not larger than before the call.
C12_MeanBoundedByPriceAndInitialMean ==
    call.op = "add" =>
        /\ Between(arch.stats[call.key].mu, call.y, call.run_mu0)
        /\ call.key \in DOMAIN pre.stats =>
              RatLeq(Distance(arch.stats[call.key].mu, call.y),
                     Distance(pre.stats[call.key].mu, call.y))

\* C12 (amended): the mean after every call lies between p and the arm's mean
\* as decayed to the day of the call, so its distance to p is not larger than
\* that of the decayed mean; in a run in which no day elapses between the
\* arm's last update and an observation, the mean lies between p and the mean
\* at the start of the run and its distance to p is gamma times the distance
\* before the call.  The first observation of an arm sets the mean to p.
C12_MeanMovesFromDecayedMeanToPrice ==
    call.op = "add" =>
        /\ call.key \notin DOMAIN pre.stats => arch.stats[call.key].mu = call.y
        /\ call.key \in DOMAIN pre.stats =>
              /\ Between(arch.stats[call.key].mu, call.y, DecayedMean)
              /\ RatLeq(Distance(arch.stats[call.key].mu, call.y),
                        Distance(DecayedMean, call.y))
        /\ ~call.run_gap =>
              /\ Between(arch.stats[call.key].mu, call.y, call.run_mu0)
              /\ call.key \in DOMAIN pre.stats =>
                    Distance(arch.stats[call.key].mu, call.y) =
                        RatMul(pre.gamma, Distance(pre.stats[call.key].mu, call.y))

\* A run of two same-day observations of a price that differs from the arm's
\* mean at the start of the run.
C12_Witness ==
    /\ call.op = "add" /\ call.run_len = 2 /\ ~call.run_gap
    /\ call.run_mu0 # call.y
    /\ RatLess(Distance(arch.stats[call.key].mu, call.y),
               Distance(pre.stats[call.key].mu, call.y))

(***************************************************************************)
(* Claims about the replay of the record store, checked under SpecBoot.    *)
(***************************************************************************)
\* A record the replay has to take: an object with a timestamp, the four
\* fields of the arm and a price that is a positive number.
ValidRecord(l) ==
    /\ l.kind = "record" /\ l.stamp \in {"datetime", "date"}
    /\ l.dep # "" /\ l.dest # "" /\ l.dd # NoDate /\ l.rd # NoDate
    /\ l.price_kind = "num" /\ l.price[1] > 0

\* The timestamp of the record is strictly newer than the watermark ts.
Newer(l, ts) ==
    ts = NoTs \/ TsNorm(l)[1] > ts[1] \/ (TsNorm(l)[1] = ts[1] /\ TsNorm(l)[2] > ts[2])

\* C14: a second bootstrap right after a first one, on the same record store,
\* leaves the archive (arm statistics and watermark) as the first one left it.
C14_BootstrapIdempotent ==
    (call.op = "bootstrap" /\ call.prev_op = "bootstrap") => arch = pre

\* A second bootstrap after a first one that replayed records and set the
\* watermark.
C14_Witness ==
    /\ call.op = "bootstrap" /\ call.prev_op = "bootstrap"
    /\ call.prev_changed
    /\ arch.last_bootstrap_ts # NoTs
    /\ DOMAIN arch.stats # {}

RECURSIVE ValidLines(_)
ValidLines(lg) ==
    IF lg = <<>> THEN <<>>
    ELSE (IF ValidRecord(Head(lg)) THEN <<Head(lg)>> ELSE <<>>) \o ValidLines(Tail(lg))

\* C16: bootstrap does not raise, and the lines that are not parseable, have
\* no timestamp, miss a field of the arm or have no positive price change
\* nothing: the archive is the one the valid records of the store alone give.
C16_SkipsInvalidLinesWithoutRaising ==
    call.op = "bootstrap" =>
        /\ ~call.raised
        /\ arch = ArchiveBootstrap(pre, ValidLines(log))

(***************************************************************************)
(* Claims about the archive file, checked under SpecDisk.                  *)
(***************************************************************************)
\* A save is in progress, or is the most recent call (finished, failed, or
\* cut short by the stop of the process).
SaveCalled == call.op = "save"

\* C17: at every step of a save, and after it wherever it ended or the
\* process stopped, the archive file is the complete file it was before the
\* save or the complete new archive, so a load reads the one or the other;
\* a save that fails raises nothing and the archive in memory is unchanged.
C17_SaveIsAtomic ==
    SaveCalled =>
        /\ disk.file = call.old_file \/ disk.file = ArchiveDump(call.saved)
        /\ ArchiveLoad(disk.file) \in {ArchiveLoad(call.old_file), call.saved}
        /\ disk.file = ArchiveDump(call.saved) /\ call.old_file # disk.file
              => call.done
        /\ arch = call.saved
        /\ call.failed => pc.at = "idle"

\* The process stopped after the temporary file was written and before the
\* rename: the archive file is still the old one and differs from the new.
C17_Witness ==
    /\ SaveCalled
    /\ pc.at = "stopped" /\ pc.was.at = "save_replace"
    /\ disk.tmp = ArchiveDump(call.saved)
    /\ disk.file = call.old_file
    /\ disk.file.kind = "object"
    /\ ArchiveLoad(disk.file) # call.saved

\* The file is missing or structurally corrupt: unreadable, not JSON, not an
\* object, without stats, stats not a mapping, gamma missing or not in (0,1).
Corrupt(f) ==
    \/ f.kind # "object"
    \/ f.stats_kind # "object"
    \/ f.gamma_kind # "num"
    \/ ~(RatLess(Zero, f.gamma) /\ RatLess(f.gamma, One))

C19_SaveLoadRoundTrip ==
    (call.op = "archive_load" /\ call.after_save) =>
        /\ arch.gamma = call.saved.gamma
        /\ arch.last_bootstrap_ts = call.saved.last_bootstrap_ts
        /\ DOMAIN arch.stats = DOMAIN call.saved.stats
        /\ \A k \in DOMAIN arch.stats : arch.stats[k] = call.saved.stats[k]

\* A round trip of an archive with arms and a watermark through a file that
\* held something else before.
C19_Witness ==
    /\ call.op = "archive_load" /\ call.after_save
    /\ DOMAIN arch.stats # {} /\ arch.last_bootstrap_ts # NoTs
    /\ arch = call.saved
    /\ disk.file = ArchiveDump(arch)

(***************************************************************************)
(* Claims about the sweep of the monitor loop, checked under SpecSweep.    *)
(***************************************************************************)
\* The penalty of a probe without result has just been ingested.
FailureIngested == call.op = "ingest_failure"

\* C13: the value ingested for a probe without result is the penalty factor
\* times the best known global price, and so is not below that price.
C13_PenaltyIsFactorTimesBestPrice ==
    FailureIngested =>
        /\ call.gb.kind = "num"
        /\ call.y = RatMul(call.gb.v, PenaltyFactor)
        /\ RatLeq(call.gb.v, call.y)
        /\ call.key \in DOMAIN arch.stats
        /\ arch = ArchiveAddObservation(pre, call.key, call.y, call.day)

\* Where the monitor thread is, or was when it stopped.
RECURSIVE Locals(_)
Locals(p) ==
    IF p.at \in {"save_open", "save_write", "save_replace"} THEN Locals(p.ret)
    ELSE IF p.at \in {"stopped", "dead", "ended"} THEN Locals(p.was)
    ELSE p

\* C20: a probe starts only after the save that follows the last ingestion,
\* with the archive that was saved; when the saves succeed the archive file
\* at the start of a probe is the archive in memory, nothing but the save
\* follows an ingestion, and wherever the sweep is interrupted the archive
\* file holds the archive in memory or the one before the last ingestion.
C20_SavedAfterEveryIngestion ==
    /\ pc.at = "probe" =>
          /\ call.op = "save" /\ call.saved = arch
          /\ call.done => disk.file = ArchiveDump(arch)
          /\ pc.clean => call.done
    /\ FailureIngested =>
          /\ Locals(pc).at = "ingested"
          /\ pc.at \in {"ingested", "stopped"}
          /\ Locals(pc).clean => disk.file = ArchiveDump(pre)
    /\ (Locals(pc).in_loop /\ Locals(pc).clean) =>
          disk.file \in {ArchiveDump(arch), ArchiveDump(pre)}

\* A second probe is about to start after an ingestion that was saved.
C20_Witness ==
    /\ pc.at = "probe" /\ pc.probes >= 1 /\ pc.todo # <<>>
    /\ call.op = "save" /\ call.prev_op = "ingest_failure" /\ call.done
    /\ arch # pre
    /\ disk.file = ArchiveDump(arch)

\* The probe that has returned was reported offline and the stop event was
\* not set when it returned: the handling of the outcome is about to run.
OfflineReported == pc.at = "handle" /\ pc.outcome = "offline"

\* C21: a probe reported offline leaves the archive, the archive file and
\* the record store as they are and starts no save; the monitor thread drops
\* the rest of the batch and goes back to the top of the while loop, from
\* where it proposes a new batch or ends on the stop event; and a penalty is
\* only ever ingested for a probe that returned without result and without
\* the offline mark.
C21_OfflineIngestsNothing ==
    /\ [](FailureIngested => Locals(pc).outcome = "no_result")
    /\ [][/\ OfflineReported =>
               /\ arch' = arch /\ disk' = disk /\ log' = log /\ call' = call
               /\ pc' = pc \/ pc'.at = "stopped"
                  \/ (pc'.at = "sweep_top" /\ pc'.todo = <<>>)
          /\ (pc.at = "sweep_top" /\ pc.outcome = "offline") =>
               /\ arch' = arch /\ disk' = disk /\ log' = log /\ call' = call
               /\ pc' = pc \/ pc'.at \in {"probe", "ended", "stopped"}]_vars

\* A new batch has been proposed after a probe that was reported offline.
C21_Witness ==
    /\ pc.at = "probe" /\ pc.outcome = "offline" /\ pc.probes >= 1
    /\ pc.todo # <<>>
    /\ call.op = "save"

\* The probe in progress, or the one that has just returned, is aborted: the
\* GUI thread has set the stop event since the probe started.
ProbeAborted == pc.at \in {"probing", "probed"} /\ stop_event

\* C22: when the sweep has ended on the stop event, the archive in memory is
\* the one the last save was given, which the archive file holds when the
\* saves succeeded; a probe that returns with the stop event set is followed
\* by the end of the sweep only, and while a probe is aborted no step changes
\* the archive, the archive file or the record store; no penalty is ingested
\* for an aborted probe.
C22_CancelLeavesLastCompletedState ==
    /\ [](pc.at = "ended" =>
            /\ call.op = "save" /\ call.saved = arch
            /\ call.done => disk.file = ArchiveDump(arch)
            /\ pc.was.clean => disk.file = ArchiveDump(arch))
    /\ [](Locals(pc).aborted => Locals(pc).at = "probed")
    /\ [](FailureIngested => ~Locals(pc).aborted)
    /\ [][ProbeAborted =>
             /\ arch' = arch /\ disk' = disk /\ log' = log /\ call' = call
             /\ pc' = pc \/ pc'.at \in {"probed", "ended", "stopped"}]_vars

\* The sweep has ended on a cancel that aborted the second probe, after the
\* penalty of the first probe was ingested and saved.
C22_Witness ==
    /\ pc.at = "ended" /\ pc.was.at = "probed" /\ pc.was.aborted
    /\ pc.was.outcome = "no_result" /\ pc.was.probes >= 2
    /\ call.op = "save" /\ call.prev_op = "ingest_failure" /\ call.done
    /\ disk.file = ArchiveDump(arch)

\* The exception of a statement that handles a probe with a result has ended
\* the monitor thread.
ResultEndedThread ==
    pc.at = "dead" /\ pc.was.at = "handle" /\ pc.was.outcome = "result"

\* C32: a probe of the sweep that returns a result is fed back (written to
\* the record store, ingested into its arm through add_observation, the
\* archive saved) before the next probe starts, and the sweep loop does not
\* terminate over it.
C32_ResultFedBack == ~ResultEndedThread

(***************************************************************************)
(* Claims about the additive surrogate, checked under SpecFit.             *)
(***************************************************************************)
Fitted == call.op = "fit"

\* alpha(dep) + beta(dest) + gamma(date) of an arm under the returned maps.
Predicted(k) ==
    RatAdd(batch.fit.alpha[k[1]], RatAdd(batch.fit.beta[k[2]], batch.fit.gamma[k[3]]))

\* The sum of weight * value over the archived arms whose field has value v.
RECURSIVE WeightedSum(_, _, _, _)
WeightedSum(keys, field, v, value) ==
    IF keys = {} THEN Zero
    ELSE LET k == CHOOSE x \in keys : TRUE
             rest == WeightedSum(keys \ {k}, field, v, value)
         IN  IF k[field] = v
             THEN RatAdd(RatMul(arch.stats[k].n, value[k]), rest)
             ELSE rest

\* The row of the normal equations of the coefficient coef of the value v of
\* a field: sum of weight * prediction over the arms with that value, plus
\* lambda * coef, equals the sum of weight * mean over the same arms.
NormalEquationHolds(field, v, coef) ==
    LET Mean == [k \in DOMAIN arch.stats |-> arch.stats[k].mu]
        lhs == RatAdd(WeightedSum(DOMAIN arch.stats, field, v,
                                  [k \in DOMAIN arch.stats |-> Predicted(k)]),
                      RatMul(Rat(1, 1000), coef))
        rhs == WeightedSum(DOMAIN arch.stats, field, v, Mean)
    IN  ~IsHuge(lhs) /\ lhs = rhs

\* C27: the three maps of the fit have the distinct origins, destinations and
\* outbound dates of the archived arms as their keys (none for an empty
\* archive), and their coefficients solve the weighted ridge normal
\* equations with the means as targets, the weights as sample weights and
\* lambda = 1e-3.  The proposals draw their maps over the same keys.
C27_FitSolvesRidgeEquations ==
    Fitted =>
        /\ DOMAIN batch.fit.alpha = {k[1] : k \in DOMAIN arch.stats}
        /\ DOMAIN batch.fit.beta = {k[2] : k \in DOMAIN arch.stats}
        /\ DOMAIN batch.fit.gamma = {k[3] : k \in DOMAIN arch.stats}
        /\ \A v \in DOMAIN batch.fit.alpha :
              NormalEquationHolds(1, v, batch.fit.alpha[v])
        /\ \A v \in DOMAIN batch.fit.beta :
              NormalEquationHolds(2, v, batch.fit.beta[v])
        /\ \A v \in DOMAIN batch.fit.gamma :
              NormalEquationHolds(3, v, batch.fit.gamma[v])
        /\ \A f \in FitAdditiveSurrogate(arch) :
              /\ DOMAIN f.alpha = DOMAIN batch.fit.alpha
              /\ DOMAIN f.beta = DOMAIN batch.fit.beta
              /\ DOMAIN f.gamma = DOMAIN batch.fit.gamma

\* The fit of three arms of different weights and means over two origins,
\* one destination and two dates.
C27_Witness ==
    /\ Fitted
    /\ DOMAIN arch.stats = FitArms
    /\ arch.stats[ArchiveKey("LON", "PAR", 1, 2)].n = Rat(1, 1000)
    /\ arch.stats[ArchiveKey("AMS", "PAR", 2, 4)].n = Rat(1, 500)
    /\ arch.stats[ArchiveKey("LON", "PAR", 2, 3)].n = Rat(3, 1000)
    /\ batch.fit.alpha = [x \in {"AMS", "LON"} |->
                            IF x = "AMS" THEN Rat(125, 8) ELSE Rat(45, 2)]
    /\ batch.fit.beta["PAR"] = Rat(305, 8)

(***************************************************************************)
(* Claims about the arms of the archive, checked under SpecArms.           *)
(***************************************************************************)
\* C28: across decay, add_observation (a price or a failure penalty), the
\* replay of the record store and propose_batch on a loaded archive, the set
\* of arm keys only grows: every arm the archive held before the call is
\* still in it after the call.
C28_ArmKeysOnlyGrow ==
    call.op # "none" => DOMAIN pre.stats \subseteq DOMAIN arch.stats

\* A decay pass has dropped an arm of the archive.
C28_ArmDropped ==
    /\ call.op = "decay"
    /\ \E k \in DOMAIN pre.stats : k \notin DOMAIN arch.stats

(***************************************************************************)
(* Claims about the arm key, checked under SpecKey.                        *)
(***************************************************************************)
\* No field of the arm holds the delimiter.
NoDelimiter(f) == \A i \in 1..4 : \A j \in 1..Len(f[i]) : f[i][j] # "|"

\* C29: for arms whose fields hold no '|', two arms have the same key if and
\* only if their four fields are equal, and splitting a key on '|' gives back
\* exactly the four fields it was built from.
C29_KeysInjectiveAndDecodable ==
    (call.op = "key" /\ NoDelimiter(call.a) /\ NoDelimiter(call.b)) =>
        /\ (call.key_a = call.key_b) <=> (call.a = call.b)
        /\ call.parts_a = call.a
        /\ call.parts_b = call.b

\* Two different arms without delimiter whose fields concatenate to the same
\* characters have been keyed and split.
C29_Witness ==
    /\ call.op = "key"
    /\ NoDelimiter(call.a) /\ NoDelimiter(call.b)
    /\ call.a # call.b
    /\ call.a[1] \o call.a[2] = call.b[1] \o call.b[2]
    /\ call.a[3] = call.b[3] /\ call.a[4] = call.b[4]
    /\ Unpacks(call.key_a)

\* With a delimiter inside a field two different arms share a key.
C29_DelimiterInFieldCollides ==
    /\ call.op = "key"
    /\ call.a # call.b
    /\ call.key_a = call.key_b

(***************************************************************************)
(* Claims about the record store, checked under SpecStore.                 *)
(***************************************************************************)
\* The lines of the store with the key.
LinesOf(store, datetime_key) ==
    {i \in 1..Len(store) : store[i].datetime = datetime_key}

\* p is the lowest of the prices.
IsLowest(p, prices) == p \in prices /\ \A r \in prices : ~RatLess(r, p)

\* C30: after any sequence of save_record calls on a store that started
\* empty, the file holds at most one record per datetime key, the price of
\* that record is the lowest of the prices saved under the key, and a call
\* whose price is not lower than the stored one leaves the file as it was.
C30_LowestPricePerHour ==
    /\ \A k \in HourKeys :
          /\ Cardinality(LinesOf(log, k)) <= 1
          /\ call.saved[k] # {} =>
                /\ Cardinality(LinesOf(log, k)) = 1
                /\ IsLowest(LoadRecord(log, k).price, call.saved[k])
    /\ (call.op = "save" /\ call.existing # NoPrice
            /\ ~RatLess(call.price, call.existing)) => log = call.before

\* A call with a price that is not lower than the stored one has returned,
\* on a store that holds two hours, one of them saved under two prices or
\* more.
C30_Witness ==
    /\ call.op = "save"
    /\ call.existing # NoPrice /\ RatLess(call.existing, call.price)
    /\ Len(log) = 2
    /\ \E k \in HourKeys : Cardinality(call.saved[k]) >= 2

(***************************************************************************)
(* Claims about one probe, checked under SpecBot.                          *)
(***************************************************************************)
\* was_offline()
WasOffline == pc.offline

\* C31: start() never raises and reports one of three outcomes: a record;
\* None with was_offline() true when the source could not be reached; None
\* with was_offline() false for no qualifying result, for a cancellation and
\* for an unexpected scraper error.  The offline flag is cleared at the
\* beginning of every start(), so it never carries over from an earlier run.
C31_ThreeOutcomes ==
    /\ pc.at = "bot_returned" =>
          /\ pc.ret \in {"record", "none"}
          /\ pc.ret = "record" => ~WasOffline
          /\ WasOffline => pc.ret = "none" /\ pc.neterror
          /\ (pc.killed \/ pc.raised) => ~WasOffline
    /\ pc.at \in {"launch", "navigate", "navigating", "poll"} => ~WasOffline

\* start() has returned None with the offline flag set although the source
\* answers: the driver was quit by request_cancel during driver.get.
C31_CancelReportedOffline ==
    /\ pc.at = "bot_returned"
    /\ pc.ret = "none" /\ WasOffline
    /\ pc.killed /\ pc.reachable /\ ~pc.neterror

\* The part of C31 that holds: the flag is cleared by every start(), a
\* record never comes with the flag, and without a cancellation during
\* driver.get the flag is set exactly for a run that met a network error.
C31_OutcomesWithoutKill ==
    /\ pc.at = "bot_returned" =>
          /\ pc.ret = "record" => ~WasOffline
          /\ ~pc.killed => (WasOffline <=> pc.neterror)
          /\ pc.raised => ~WasOffline
    /\ pc.at \in {"launch", "navigate", "navigating", "poll"} => ~WasOffline

\* A second start() has cleared a flag the first run had set.
C31_FlagReset ==
    /\ pc.runs = 2 /\ pc.at = "launch" /\ pc.prev_offline /\ ~WasOffline

(***************************************************************************)
(* Claims about the incremental replay, checked under SpecLog.             *)
(***************************************************************************)
\* C35: whatever the order of the writes to the record store and of the
\* replays, every valid record that is in the store at a replay has been
\* replayed into the archive by the end of that call, also a record whose
\* timestamp equals the watermark.
C35_NoValidRecordSkipped ==
    call.op = "replay" =>
        \A i \in 1..Len(log) :
            Eligible(log[i], NoTs) => Row(log[i]) \in call.done

\* A replay has returned and a valid record of the store, stamped with the
\* hour of the watermark, was replayed by no call.
C35_SameHourRecordSkipped ==
    /\ call.op = "replay"
    /\ \E i \in 1..Len(log) :
          /\ Eligible(log[i], NoTs)
          /\ TsNorm(log[i]) = arch.last_bootstrap_ts
          /\ Row(log[i]) \notin call.done

\* What the replay does: a call replays every valid record that is newer
\* than the watermark it starts with.
C35_NewerRecordsReplayed ==
    call.op = "replay" =>
        \A i \in 1..Len(log) :
            (Eligible(log[i], NoTs)
                /\ (pre.last_bootstrap_ts = NoTs
                      \/ TsLess(pre.last_bootstrap_ts, TsNorm(log[i]))))
            => Row(log[i]) \in Range(call.replayed)

(***************************************************************************)
(* Claims about the sweep across day changes, checked under SpecClock.     *)
(***************************************************************************)
\* C36: every observation the sweep loop ingests is stamped with the
\* calendar day of the ingestion: after the live add_observation the arm's
\* last_date is the current day and the decay of that day was applied before
\* the blending, also when the loop runs across day changes.
C36_IngestionStampedToday ==
    FailureIngested =>
        /\ call.day = call.now
        /\ arch.stats[call.key].last_date = call.now
        /\ arch = ArchiveAddObservation(pre, call.key, call.y, call.now)

\* An observation has been ingested on a later day than the one the loop
\* started on, and is stamped with the day of the start.
C36_StampedWithStartDay ==
    /\ FailureIngested
    /\ call.day < call.now
    /\ arch.stats[call.key].last_date = call.day

\* Within the day the loop started on, the ingestion is stamped with the
\* current day.
C36_StampedTodayWithinStartDay ==
    (FailureIngested /\ Locals(pc).today = call.now) =>
        /\ call.day = call.now
        /\ arch.stats[call.key].last_date = call.now

(***************************************************************************)
(* Claims about the monitor thread, checked under SpecGui and SpecTk.      *)
(***************************************************************************)
\* C37: whatever the order of the Start clicks, the Cancel clicks, the
\* field changes and the ends of the threads, at most one monitor thread
\* is alive at any time, so that the archive has one writer at most.
C37_AtMostOneMonitorThread == Cardinality(LiveThreads(pc)) <= 1

\* _on_start has just returned without starting a thread next to the live
\* one, and that live thread is the second one of the run.
C37_Witness ==
    /\ call.op = "start"
    /\ call.alive
    /\ pc.fields_complete
    /\ Len(pc.threads) = MaxThreads
    /\ Cardinality(LiveThreads(pc)) = 1

\* The window is idle: no thread is alive, Start is enabled and Cancel is
\* disabled.
GuiIdle ==
    /\ LiveThreads(pc) = {}
    /\ pc.status = "idle"
    /\ pc.start_button = "normal"
    /\ pc.cancel_button = "disabled"

\* C38: once the stop event is set while the monitor thread is alive, the
\* thread ends and the window comes back to idle, with Start enabled and
\* Cancel disabled.
C38_CancellationHonoured == (stop_event /\ IsAlive(pc)) ~> GuiIdle

\* What the loop does: once the stop event is set while the thread is
\* alive, the thread leaves its loop and reaches the message box at the end
\* of _monitor_loop, or is dead.
C38_LoopLeft ==
    (stop_event /\ IsAlive(pc)) ~>
        (\A t \in 1..Len(pc.threads) : pc.threads[t].at \in {"dialog", "dead"})

\* No probe starts while the stop event is set.
C38_NoProbeAfterStop ==
    [][stop_event =>
          \A t \in 1..Len(pc.threads) :
              pc'.threads[t].at = "probe" => pc.threads[t].at = "probe"]_vars

\* The thread stands at its message box, the stop event set, and the
\* window still shows both buttons disabled.
C38_ThreadAtDialog ==
    /\ stop_event
    /\ IsAlive(pc)
    /\ pc.threads[pc.monitor_thread].at = "dialog"
    /\ pc.start_button = "disabled"
    /\ pc.cancel_button = "disabled"

(***************************************************************************)
(* Claims about successive decay passes, checked under SpecDays.           *)
(***************************************************************************)
\* The arm record has a last_date that is a day.
Dated(s) == s.last_date # Undated /\ DateParses(s.last_date)

\* The last two calls were decay passes for the days t1 <= t2.
TwoDecays ==
    /\ call.op = "decay"
    /\ call.prev_op = "decay"
    /\ call.prev_day <= call.day

\* A decay pass for a day earlier than an arm's last_date leaves that arm
\* as it was.
EarlierDayLeavesArm ==
    call.op = "decay" =>
        \A k \in DOMAIN pre.stats :
            (Dated(pre.stats[k]) /\ call.day < pre.stats[k].last_date)
            => (k \in DOMAIN arch.stats /\ arch.stats[k] = pre.stats[k])

\* C39: for every archive and days t1 <= t2 that are not earlier than the
\* last_date of any arm, the decay pass for t1 followed by the one for t2
\* leaves the archive the pass for t2 alone leaves, and a pass for a day
\* earlier than an arm's last_date leaves that arm unchanged.
C39_DecayComposes ==
    /\ EarlierDayLeavesArm
    /\ (TwoDecays
          /\ \A k \in DOMAIN call.first.stats :
                Dated(call.first.stats[k])
                    => call.first.stats[k].last_date <= call.prev_day)
       => arch = ArchiveDecay(call.first, call.day)

\* C39, amended: the same, for the archives in which every arm has a
\* last_date.
C39_DecayComposesOnDatedArms ==
    /\ EarlierDayLeavesArm
    /\ (TwoDecays
          /\ \A k \in DOMAIN call.first.stats :
                /\ Dated(call.first.stats[k])
                /\ call.first.stats[k].last_date <= call.prev_day)
       => arch = ArchiveDecay(call.first, call.day)

\* Two decay passes on later and later days have discounted an arm twice.
C39_Witness ==
    /\ TwoDecays
    /\ call.prev_day < call.day
    /\ call.changed /\ call.prev_changed
    /\ \E k \in DOMAIN call.first.stats :
          /\ Dated(call.first.stats[k])
          /\ call.first.stats[k].last_date < call.prev_day
          /\ arch.stats[k].last_date = call.day

\* An arm without last_date was stamped by the first of two decay passes
\* and discounted by the second.
C39_UndatedArmDiscounted ==
    /\ TwoDecays
    /\ \E k \in DOMAIN call.first.stats :
          /\ call.first.stats[k].last_date = Undated
          /\ RatLess(arch.stats[k].n, call.first.stats[k].n)

(***************************************************************************)
(* Claims about the weight of an arm, checked under Spec.                  *)
(***************************************************************************)
\* 1 / (1 - gamma), the limit of the weight of an arm observed for ever.
WeightBound(gamma) == Rat(gamma[2], gamma[2] - gamma[1])

\* C40: in every reachable state the weight of every arm is strictly below
\* 1 / (1 - gamma), whatever the number and the days of the observations
\* and of the decay passes.
C40_WeightBelowBound ==
    \A k \in DOMAIN arch.stats :
        RatLess(arch.stats[k].n, WeightBound(arch.gamma))

\* An arm of an archive that started empty, with decay factor 1/2, has been
\* observed twice or more and weighs more than its first observation.
C40_Witness ==
    /\ call.op = "add"
    /\ call.run_len >= 2
    /\ arch.gamma = Rat(1, 2)
    /\ RatLess(One, arch.stats[call.key].n)

====
